---- MODULE Spec2Model ----
(***************************************************************************)
(* Bob agent (noambrezis/constructor-agent): the webhook intake gateway    *)
(* (authentication, per-group sliding-window rate limit, deduplication,    *)
(* hand-off to the ARQ queue) and the worker that runs one LangGraph turn  *)
(* per job.                                                                *)
(*                                                                         *)
(*   Spec       the intake gateway: concurrent handle_message requests,    *)
(*              interleaved at their await points.                         *)
(*   SpecDedup  the dedup repository under callers that mark, commit and   *)
(*              then ask.                                                  *)
(*   SpecRate   the rate limiter alone, over two groups and a long clock.  *)
(*   SpecBurst  the rate limiter under concurrent requests of one group.   *)
(*   SpecSerial the intake gateway under deliveries that arrive one after  *)
(*              another.                                                   *)
(*   SpecAgent  the ARQ worker: process_message / run_agent and the        *)
(*              graph's nodes, every job run once.                         *)
(*   SpecQueue  one job under a worker that is stopped and started again:  *)
(*              the queue's re-runs of a cancelled job.                    *)
(*   SpecCache  the site cache: concurrent SiteCache.get calls, a writer   *)
(*              of sites, a cache store that can fail.                     *)
(*   SpecBridge the bridge client's sending operations and their retries.  *)
(*   SpecDefect concurrent add_defect calls: the advisory lock, the read    *)
(*              of the site's highest defect number, the insert, the commit.*)
(*   SpecReport send_pdf_report calls and pdf_service.generate's job       *)
(*              creation and polling.                                      *)
(*   SpecTurn   the turn of one voice message with the requests of         *)
(*              soniox_service.transcribe, under weak fairness: an await   *)
(*              that can return or raise eventually does.                  *)
(***************************************************************************)
EXTENDS Naturals, Integers, Sequences, FiniteSets, TLC

(***************************************************************************)
(* Bounds of the model and settings of the program                         *)
(***************************************************************************)

\* The wall clock (time.time()) takes the values 0..MaxClock in SpecRate,
\* 0..IntakeMaxClock in Spec and 0..SerialMaxClock in SpecSerial.
MaxClock == 4

SerialMaxClock == 6

IntakeMaxClock == 2

\* app/config.py: RATE_LIMIT_MAX_MESSAGES (a deployment setting, default 20;
\* the model runs the deployment that sets it to 2).
RATE_LIMIT_MAX_MESSAGES == 2

\* app/config.py: RATE_LIMIT_WINDOW_SECONDS (a deployment setting, default 60;
\* the model runs the deployment that sets it to 3).
RATE_LIMIT_WINDOW_SECONDS == 3

\* app/config.py: AGENT_MAX_ITERATIONS.
AGENT_MAX_ITERATIONS == 3

\* app/worker.py: WorkerSettings.max_tries.
max_tries == 3

\* The history of a turn grows up to MaxHistory messages (the stored history
\* itself is unbounded): a node that would append to a full history waits.
MaxHistory == 6

\* The worker runs at most MaxJobs jobs at once (WorkerSettings.max_jobs is 10).
MaxJobs == 2

\* app/config.py: SITE_CACHE_TTL_SECONDS (a deployment setting, default 300;
\* the model runs the deployment that sets it to 2).
SITE_CACHE_TTL_SECONDS == 2

\* The rows of a site are told apart by a version, 1..MaxVersion: a site is
\* written at most MaxVersion - 1 times.
MaxVersion == 2

\* @retry(stop=stop_after_attempt(3), ...) of app/services/bridge_service.py.
stop_after_attempt == 3

\* app/config.py: STT_TIMEOUT_SECONDS (a deployment setting, default 60; the
\* model runs the deployment that sets it to 2), and POLL_INTERVAL of
\* app/services/soniox_service.py.
STT_TIMEOUT_SECONDS == 2

SONIOX_POLL_INTERVAL == 1

\* app/services/pdf_service.py: MAX_POLL_SECONDS (120 in the source; the
\* model runs it with 2) and POLL_INTERVAL.
MAX_POLL_SECONDS == 2

POLL_INTERVAL == 1

\* add_defect calls are started for a site while its rows and the calls in
\* flight for it are fewer than MaxDefects.
MaxDefects == 2

\* The webhook requests in flight at once: two connections, each taking its
\* next request when the one before has been answered.
Requests == {1, 2}

\* The message bodies the bridge delivers. A messageId is unique per
\* message, so it fixes the group: m1 and m2 are messages of group gA, m3 of gB.
Bodies ==
    { [messageId |-> "m1", groupId |-> "gA"],
      [messageId |-> "m2", groupId |-> "gA"],
      [messageId |-> "m3", groupId |-> "gB"] }

\* The bodies the gateway receives in Spec, and the callers of the rate
\* limiter in SpecRate (one per group).
IntakeBodies == { b \in Bodies : b.groupId = "gA" }

RateBodies == { b \in Bodies : b.messageId \in {"m1", "m3"} }

MessageIds == { b.messageId : b \in Bodies }

Groups == { b.groupId : b \in Bodies }

GroupOf(m) == (CHOOSE b \in Bodies : b.messageId = m).groupId

NoBody == [messageId |-> "none", groupId |-> "none"]

\* No call of the rate limiter yet since the group's window was last empty.
NoRun == [n |-> 0, first |-> 0, last |-> 0, ordered |-> FALSE]

VARIABLES
    \* ---- intake gateway (app/main.py) ----
    pc,                  \* position of each handle_message request
    body,                \* payload.body of each request
    x_webhook_secret,    \* the X-Webhook-Secret header of each request ("None": no header)
    now,                 \* the local `now` of check_rate_limit
    response,            \* what the request was answered
    seen_accepted,       \* history: the request arrived after its messageId was answered "accepted"
    seen_enqueue_failed, \* history: the request arrived after enqueue_job failed for its messageId
    rl_rank,             \* history: the request's call was the rl_rank-th of its run (0: not in an ordered run)
    rl_entries,          \* history: the entries of the group's window right after the request's pipeline ran
    limiter_fate,        \* history: per messageId, how its deliveries fared at the rate limiter
    rl_admitted,         \* history: per group and clock value, the calls admitted that read it (up to N + 1)
    rl_run,              \* history: per group, the calls executed since its window was last empty
    accepted_ids,        \* history: messageIds answered "accepted"
    enqueue_failed_ids,  \* history: messageIds whose enqueue_job raised
    mark_commits,        \* history: per messageId, mark_as_processed + commit pairs completed (up to 2)
    clock,               \* time.time()
    redis_client,        \* app.state.redis: TRUE when a client is set
    redis_zsets,         \* rate:<group_id> sorted sets: sets of [member, score]
    redis_ttl,           \* expiry deadline of each rate:<group_id> key (-1: no key)
    processed_messages,  \* committed rows of the processed_messages table, per message_id
    session_pending,     \* the uncommitted insert of each request's session
    arq_jobs,            \* the ARQ queue: per messageId, the jobs enqueued
    \* ---- worker (app/worker.py, app/agent/graph.py) ----
    job_status,          \* ARQ's record of each message's job
    job_try,             \* ARQ's retry counter of each job (attempts started)
    apc,                 \* position of each job's run_agent execution
    st,                  \* the graph state (AgentState) of each running turn
    err,                 \* what the turn raised, if anything
    checkpoint,          \* the checkpointer: latest saved state of each thread group_<groupId>
    worker_up,           \* the worker process is running (FALSE: it is shutting down)
    ack_failed,          \* history: confirm_processing raised in the job's current run
    acks,                \* history: confirm_processing invocations of each job's current run
    tools_in_turn,       \* history: executions of the tools node in the current turn
    effected,            \* history: the current attempt ran a tool or sent a message
    effect_attempts,     \* history: per messageId, the attempts that ran a tool or sent a message
    prev_tool,           \* history: the turn started right after a completed turn of its session that ran a tool
    last_turn_tool,      \* history: per session, the last completed turn ran a tool
    reply_sent,          \* history: the entries whose content send_reply_node sent in the current turn
    \* ---- site cache (app/services/site_cache.py) and the writers of sites ----
    sites_table,         \* the sites table: per group_id, the version of its row (NoSite: no row)
    site_cache_redis,    \* SiteCache._redis is not None
    site_redis,          \* the Redis keys site:<group_id>: the stored payload, or Nil
    site_redis_ttl,      \* the remaining lifetime of each site:<group_id> key
    gpc,                 \* position of each SiteCache.get call
    g_group,             \* group_id of each get call
    g_site,              \* the local `site` of each get call
    g_result,            \* what each get call returns
    wpc,                 \* position of each write of a site
    w_kind,              \* update_site, delete_site or update_logo
    w_group,             \* group_id of each write
    w_found,             \* site_repo.update found the row
    g_floor,             \* history: the value of published for its group when the get call started
    g_cache_error,       \* history: the cache store raised in the get call
    g_read_db,           \* history: the get call has read the database
    g_missed,            \* history: the get call's read of the cache found no key
    w_committed,         \* history: the write has committed
    w_invalidated,       \* history: the write has called site_cache.invalidate
    published,           \* history: per group, the version left by the last write whose invalidate removed the entry
    \* ---- bridge client (app/services/bridge_service.py) ----
    bpc,                 \* position of the call of each operation
    attempt_number,      \* tenacity's attempt counter of each call
    b_error,             \* what the call's last failed attempt raised
    b_raised,            \* what the call raised to its caller
    \* ---- add_defect (app/agent/tools/add_defect.py, defect_repo.py) ----
    d_pc,                \* position of each add_defect call
    d_site,              \* site.id of each call (NoSite: site_cache.get returned None)
    next_id,             \* the local next_id of each call (0: not set)
    d_result,            \* what the call returned or raised
    defects,             \* the defects table: per site_id, the defect_id of its committed rows
    advisory_lock,       \* pg_advisory_xact_lock: per key, the call whose transaction holds it (0: free)
    d_waited,            \* history: another call took the lock while this one waited for it
    \* ---- send_pdf_report (app/agent/tools/send_report.py, pdf_service.py) ----
    r_pc,                \* position of each send_pdf_report call
    elapsed,             \* the local `elapsed` of generate's polling loop
    r_result,            \* what the call returned, or that it raised
    r_error,             \* history: what pdf_service.generate raised in the call
    r_documents,         \* history: the documents the call sent
    \* ---- soniox_service.transcribe (app/services/soniox_service.py) ----
    stt_pc,              \* position of the transcribe call of the turn
    stt_elapsed,         \* the local `elapsed` of its polling loop
    stt_result,          \* what the call returned ("text", "") or raised
    stt_polls            \* history: the status requests the polling loop has made

\* The program's state, and the history each specification records about it.
intakeVars ==
    << pc, body, x_webhook_secret, now, response, clock, redis_client, redis_zsets, redis_ttl,
       processed_messages, session_pending, arq_jobs >>

intakeHist == << seen_accepted, seen_enqueue_failed, accepted_ids, enqueue_failed_ids >>

rateHist == << rl_rank, rl_entries, rl_run >>

burstHist == << rl_admitted >>

serialHist == << limiter_fate >>

dedupHist == << mark_commits >>

agentVars == << job_status, job_try, apc, st, err, checkpoint, worker_up >>

turnHist == << ack_failed, acks, tools_in_turn, prev_tool, last_turn_tool, reply_sent >>
queueHist == << effected, effect_attempts >>
agentHist == << turnHist, queueHist >>

cacheVars == << sites_table, site_cache_redis, site_redis, site_redis_ttl >>

getVars == << gpc, g_group, g_site, g_result >>

writeVars == << wpc, w_kind, w_group, w_found >>

cacheHist ==
    << g_floor, g_cache_error, g_read_db, g_missed, w_committed, w_invalidated, published >>

bridgeVars == << bpc, attempt_number, b_error, b_raised >>

defectVars == << d_pc, d_site, next_id, d_result, defects, advisory_lock, d_waited >>

\* The state of the tools and services modelled on their own.
reportVars == << r_pc, elapsed, r_result, r_error, r_documents >>

sttVars == << stt_pc, stt_elapsed, stt_result, stt_polls >>

toolVars == << defectVars, reportVars, sttVars >>

\* What the intake gateway and the worker's turns leave alone.
serviceVars == << cacheVars, getVars, writeVars, cacheHist, bridgeVars, toolVars >>

vars ==
    << intakeVars, intakeHist, rateHist, burstHist, serialHist, dedupHist, agentVars,
       agentHist, serviceVars >>

(***************************************************************************)
(* Redis sorted-set commands used by the rate limiter                      *)
(***************************************************************************)

\* Mutant of RateKey: one key for every group.
RateKey_Shared(group_id) == "gA"

\* key = f"rate:{group_id}": the sorted set of the group (the keys are named
\* by their groups).
RateKey(group_id) == group_id

\* str(now): the member of the entry. str() of a float is one-to-one, so the
\* member is named by the value it prints.
MemberOf(t) == [str |-> t]

ZRemRangeByScore(z, lo, hi) == { e \in z : ~(lo <= e.score /\ e.score <= hi) }

\* ZADD replaces the score of a member already in the set.
ZAdd(z, member, score) ==
    { e \in z : e.member # member } \cup { [member |-> member, score |-> score] }

ZCard(z) == Cardinality(z)

\* The MULTI/EXEC pipeline of check_rate_limit on the set z at local time t:
\* the set it leaves and the results[2] it returns.
\* Mutant of RatePipelineSet: a call over the limit does not record itself.
RatePipelineSet_AdmittedOnly(z, t) ==
    LET pruned == ZRemRangeByScore(z, 0, t - RATE_LIMIT_WINDOW_SECONDS)
    IN  IF ZCard(ZAdd(pruned, MemberOf(t), t)) > RATE_LIMIT_MAX_MESSAGES
        THEN pruned
        ELSE ZAdd(pruned, MemberOf(t), t)

RatePipelineSet(z, t) ==
    ZAdd(ZRemRangeByScore(z, 0, t - RATE_LIMIT_WINDOW_SECONDS), MemberOf(t), t)

\* Mutant of RatePipelineCount: the count is taken without the pruning.
RatePipelineCount_NoPrune(z, t) == ZCard(ZAdd(z, MemberOf(t), t))

RatePipelineCount(z, t) ==
    ZCard(ZAdd(ZRemRangeByScore(z, 0, t - RATE_LIMIT_WINDOW_SECONDS), MemberOf(t), t))

\* pipe.expire(key, RATE_LIMIT_WINDOW_SECONDS + 1) sent at time t: when the
\* key expires. A deadline past the last clock value is kept as SerialMaxClock + 1:
\* the key outlives every behaviour.
ExpireDeadline(t) ==
    IF t + RATE_LIMIT_WINDOW_SECONDS + 1 > SerialMaxClock
    THEN SerialMaxClock + 1
    ELSE t + RATE_LIMIT_WINDOW_SECONDS + 1

\* Mutant of RateExceeded: the comparison is off by one.
RateExceeded_AtLimit(count) == count >= RATE_LIMIT_MAX_MESSAGES

\* count > settings.RATE_LIMIT_MAX_MESSAGES
RateExceeded(count) == count > RATE_LIMIT_MAX_MESSAGES

\* History: the run of calls of a group after the call at local time t on the
\* stored set z. A run starts when nothing of the set is left in the window;
\* it stays ordered while each call reads a later clock value than the one
\* before it and all of them fall within one window length of the first.
RunAfter(run, z, t) ==
    IF ZRemRangeByScore(z, 0, t - RATE_LIMIT_WINDOW_SECONDS) = {}
    THEN [n |-> 1, first |-> t, last |-> t, ordered |-> TRUE]
    ELSE IF run.ordered /\ t > run.last /\ t - run.first < RATE_LIMIT_WINDOW_SECONDS
         THEN [n |-> run.n + 1, first |-> run.first, last |-> t, ordered |-> TRUE]
         ELSE NoRun

(***************************************************************************)
(* The processed_messages table (dedup_repo)                               *)
(***************************************************************************)

\* Mutant of is_already_processed: the lookup is by group_id.
is_already_processed_ByGroup(table, message_id) ==
    \E m \in MessageIds : GroupOf(m) = GroupOf(message_id) /\ Len(table[m]) > 0

\* Mutant of is_already_processed: the lookup compares the wrong column and
\* finds nothing.
is_already_processed_WrongColumn(table, message_id) == FALSE

\* select(exists().where(message_id == :message_id)): committed rows only
\* (READ COMMITTED); the request has made no insert of its own before it asks.
is_already_processed(table, message_id) == Len(table[message_id]) > 0

\* Mutant of InsertOutcome: a plain INSERT, which raises on a duplicate key.
InsertOutcome_PlainInsert(table, message_id) ==
    IF Len(table[message_id]) > 0 THEN "error" ELSE "insert"

\* INSERT ... ON CONFLICT DO NOTHING: "insert" when no row has the key,
\* "nothing" when one has ("error": the statement raises).
InsertOutcome(table, message_id) ==
    IF Len(table[message_id]) > 0 THEN "nothing" ELSE "insert"

\* Mutant of CommitRows: the session only flushes, and its row is lost when
\* the session closes.
CommitRows_FlushOnly(table, pending) == table

\* session.commit(): the session's pending row becomes a committed row.
CommitRows(table, pending) ==
    IF pending = NoBody
    THEN table
    ELSE [table EXCEPT ![pending.messageId] = Append(@, pending.groupId)]

\* Mutant of HandlerOrder: the job is enqueued before the dedup record is
\* committed.
HandlerOrder_EnqueueFirst(step) ==
    CASE step = "dedup" -> "mark"
      [] step = "mark" -> "enqueue"
      [] step = "enqueue" -> "commit"
      [] step = "commit" -> "done"

\* The order of handle_message's steps 3 to 5: what follows each.
HandlerOrder(step) ==
    CASE step = "dedup" -> "mark"
      [] step = "mark" -> "commit"
      [] step = "commit" -> "enqueue"
      [] step = "enqueue" -> "done"

(***************************************************************************)
(* Init                                                                    *)
(***************************************************************************)

InitIntake ==
    /\ pc = [r \in Requests |-> "idle"]
    /\ body = [r \in Requests |-> NoBody]
    /\ x_webhook_secret = [r \in Requests |-> "None"]
    /\ now = [r \in Requests |-> 0]
    /\ response = [r \in Requests |-> "none"]
    /\ seen_accepted = [r \in Requests |-> FALSE]
    /\ seen_enqueue_failed = [r \in Requests |-> FALSE]
    /\ rl_rank = [r \in Requests |-> 0]
    /\ rl_entries = [r \in Requests |-> 0]
    /\ rl_run = [g \in Groups |-> NoRun]
    /\ rl_admitted = [g \in Groups |-> [t \in 0..MaxClock |-> 0]]
    /\ limiter_fate = [m \in MessageIds |-> "none"]
    /\ accepted_ids = {}
    /\ enqueue_failed_ids = {}
    /\ mark_commits = [m \in MessageIds |-> 0]
    /\ clock = 0
    /\ redis_client \in BOOLEAN
    /\ redis_zsets = [g \in Groups |-> {}]
    /\ redis_ttl = [g \in Groups |-> -1]
    /\ processed_messages = [m \in MessageIds |-> << >>]
    /\ session_pending = [r \in Requests |-> NoBody]
    /\ arq_jobs = [m \in MessageIds |-> 0]

(***************************************************************************)
(* The worker's state: message fields, AgentState, checkpoints             *)
(***************************************************************************)

\* MessageBody.sonioxFileId and MessageBody.messageText: m2 is a voice message
\* (a file id and no text), m1 and m3 are text messages.
sonioxFileId(m) == IF m = "m2" THEN "file" ELSE "None"

messageText(m) == IF m = "m2" THEN "None" ELSE "text"

\* The sites table: the group gA has a site, the group gB has none.
Sites == {"gA"}

\* A message of the history: its class, whether its content is blank ("") or
\* not ("text"), and whether it carries tool calls.
HumanMessage(content) == [type |-> "human", content |-> content, tool_calls |-> FALSE]

AIMessage(content, calls) == [type |-> "ai", content |-> content, tool_calls |-> calls]

ToolMessage == [type |-> "tool", content |-> "text", tool_calls |-> FALSE]

\* SystemMessage(content=build_system_prompt(state["site"])).
SystemMessage == [type |-> "system", content |-> "text", tool_calls |-> FALSE]

\* state.py: messages: Annotated[list, add_messages]. The reducer appends the
\* update to what is stored (every message of the model is a new message, so
\* no entry replaces another by id).
add_messages(left, right) == left \o right

\* Channel values of a thread nobody has written to, and the state of a job
\* that is not running.
EmptyState ==
    [messages |-> << >>, site |-> FALSE, tool_was_called |-> FALSE,
     iteration_count |-> 0, transcript |-> "None"]

\* Mutant of session_id: every group's turns run on one thread.
session_id_Shared(group_id) == "group_gB"

\* run_agent: session_id = f"group_{body.groupId}", the thread_id of the turn.
session_id(group_id) == IF group_id = "gA" THEN "group_gA" ELSE "group_gB"

\* The threads of the checkpointer.
Threads == {"group_gA", "group_gB"}

\* run_agent's initial_state applied to the thread's stored values: every
\* key overwrites its channel, except messages, which goes through the reducer.
InitialState(stored) ==
    [messages |-> add_messages(stored.messages, << >>), site |-> FALSE,
     tool_was_called |-> FALSE, iteration_count |-> 0, transcript |-> "None"]

InitAgent ==
    /\ job_status = [m \in MessageIds |-> "none"]
    /\ job_try = [m \in MessageIds |-> 0]
    /\ apc = [m \in MessageIds |-> "idle"]
    /\ st = [m \in MessageIds |-> EmptyState]
    /\ err = [m \in MessageIds |-> "none"]
    /\ checkpoint = [t \in Threads |-> EmptyState]
    /\ worker_up = TRUE
    /\ ack_failed = [m \in MessageIds |-> FALSE]
    /\ acks = [m \in MessageIds |-> 0]
    /\ reply_sent = [m \in MessageIds |-> << >>]
    /\ tools_in_turn = [m \in MessageIds |-> 0]
    /\ effected = [m \in MessageIds |-> FALSE]
    /\ effect_attempts = [m \in MessageIds |-> 0]
    /\ prev_tool = [m \in MessageIds |-> FALSE]
    /\ last_turn_tool = [g \in Groups |-> FALSE]

(***************************************************************************)
(* handle_message, step by step (one action per stretch between awaits)    *)
(***************************************************************************)

\* The request is answered: get_session's `async with` ends the session,
\* which rolls back what it did not commit.
Finish(r, what) ==
    /\ pc' = [pc EXCEPT ![r] = "done"]
    /\ response' = [response EXCEPT ![r] = what]
    /\ session_pending' = [session_pending EXCEPT ![r] = NoBody]
    /\ now' = [now EXCEPT ![r] = 0]

\* The request moves on to its next step.
Goto(r, step) ==
    /\ pc' = [pc EXCEPT ![r] = step]
    /\ UNCHANGED response

\* Steps 3 to 5 in their order: the request goes to what follows `step`, and
\* is answered "accepted" after the last.
Advance(r, step) ==
    IF HandlerOrder(step) = "done"
    THEN Finish(r, "accepted")
    ELSE Goto(r, HandlerOrder(step)) /\ UNCHANGED now

\* settings.WEBHOOK_SECRET, and the headers a request may carry: none, an
\* empty one, the secret, another value.
WEBHOOK_SECRET == "secret"

Headers == {"None", "", "secret", "wrong"}

\* Mutant of verify_webhook_secret: a request without the header is let in.
verify_webhook_secret_MissingAllowed(header) ==
    header \in {"None", ""} \/ header = WEBHOOK_SECRET

\* verify_webhook_secret: TRUE when it returns, FALSE when it raises 401 (no
\* header or an empty one; a value that compare_digest finds different).
verify_webhook_secret(header) ==
    IF header \in {"None", ""} THEN FALSE
    ELSE header = WEBHOOK_SECRET

\* Mutant of AfterAuthenticate: the dedup check comes first, the limiter is
\* not asked before it.
AfterAuthenticate_DedupFirst(client) == "dedup"

\* handle_message after verify_webhook_secret: check_rate_limit is awaited
\* before is_already_processed; it returns at once when no client is set.
AfterAuthenticate(client) == IF client THEN "rate" ELSE "dedup"

\* A request arrives and runs to its first await. 1. Authenticate;
\* 2. check_rate_limit: without a client there is no limit, otherwise the
\* clock is read and the pipeline is sent.
Receive(r, b, header) ==
    /\ pc[r] = "idle"
    /\ body' = [body EXCEPT ![r] = b]
    /\ x_webhook_secret' = [x_webhook_secret EXCEPT ![r] = header]
    /\ IF ~verify_webhook_secret(header)
       THEN /\ pc' = [pc EXCEPT ![r] = "done"]
            /\ response' = [response EXCEPT ![r] = "401"]
            /\ UNCHANGED now
       ELSE /\ pc' = [pc EXCEPT ![r] = AfterAuthenticate(redis_client)]
            /\ now' = [now EXCEPT ![r] = IF redis_client THEN clock ELSE 0]
            /\ UNCHANGED response
    /\ UNCHANGED << clock, redis_client, redis_zsets, redis_ttl, processed_messages,
                    session_pending, arq_jobs >>

\* pipe.execute(): the four commands run as one transaction; then the count
\* is compared.
check_rate_limit(r) ==
    /\ pc[r] = "rate"
    /\ LET g == RateKey(body[r].groupId)
           count == RatePipelineCount(redis_zsets[g], now[r])
       IN /\ redis_zsets' = [redis_zsets EXCEPT ![g] = RatePipelineSet(@, now[r])]
          /\ redis_ttl' = [redis_ttl EXCEPT ![g] = ExpireDeadline(clock)]
          /\ IF RateExceeded(count)
             THEN Finish(r, "429")
             ELSE /\ Goto(r, "dedup")
                  /\ now' = [now EXCEPT ![r] = 0]
                  /\ UNCHANGED session_pending
    /\ UNCHANGED << x_webhook_secret, body, clock, redis_client, processed_messages, arq_jobs >>

\* pipe.execute() raises (Redis unreachable): the error leaves handle_message.
RatePipelineFails(r) ==
    /\ pc[r] = "rate"
    /\ Finish(r, "500_redis")
    /\ UNCHANGED << x_webhook_secret, body, clock, redis_client, redis_zsets, redis_ttl,
                    processed_messages, arq_jobs >>

\* 3. Deduplicate.
Deduplicate(r) ==
    /\ pc[r] = "dedup"
    /\ IF is_already_processed(processed_messages, body[r].messageId)
       THEN Finish(r, "duplicate")
       ELSE Advance(r, "dedup") /\ UNCHANGED session_pending
    /\ UNCHANGED << x_webhook_secret, body, clock, redis_client, redis_zsets, redis_ttl,
                    processed_messages, arq_jobs >>

\* 4. mark_as_processed: the insert waits while another session holds an
\* uncommitted row with the same key (the unique index), then inserts or does
\* nothing.
mark_as_processed(r) ==
    /\ pc[r] = "mark"
    /\ \A o \in Requests \ {r} : session_pending[o].messageId # body[r].messageId
    /\ LET outcome == InsertOutcome(processed_messages, body[r].messageId)
       IN IF outcome = "error"
          THEN Finish(r, "500_db")
          ELSE /\ Advance(r, "mark")
               /\ session_pending' =
                      [session_pending EXCEPT ![r] = IF outcome = "insert" THEN body[r] ELSE NoBody]
    /\ UNCHANGED << x_webhook_secret, body, clock, redis_client, redis_zsets, redis_ttl,
                    processed_messages, arq_jobs >>

\* await session.commit()
Commit(r) ==
    /\ pc[r] = "commit"
    /\ processed_messages' = CommitRows(processed_messages, session_pending[r])
    /\ IF HandlerOrder("commit") = "done"
       THEN Finish(r, "accepted")
       ELSE /\ Goto(r, HandlerOrder("commit"))
            /\ session_pending' = [session_pending EXCEPT ![r] = NoBody]
            /\ UNCHANGED now
    /\ UNCHANGED << x_webhook_secret, body, clock, redis_client, redis_zsets, redis_ttl, arq_jobs >>

\* 5. enqueue_job succeeds: a job with a fresh job id joins the queue.
Enqueue(r) ==
    /\ pc[r] = "enqueue"
    /\ arq_jobs' = [arq_jobs EXCEPT ![body[r].messageId] = @ + 1]
    /\ IF HandlerOrder("enqueue") = "done"
       THEN Finish(r, "accepted")
       ELSE Goto(r, HandlerOrder("enqueue")) /\ UNCHANGED << now, session_pending >>
    /\ UNCHANGED << x_webhook_secret, body, clock, redis_client, redis_zsets, redis_ttl,
                    processed_messages >>

\* 5. enqueue_job raises: nothing undoes the committed dedup record.
EnqueueFails(r) ==
    /\ pc[r] = "enqueue"
    /\ Finish(r, "500_enqueue")
    /\ UNCHANGED << x_webhook_secret, body, clock, redis_client, redis_zsets, redis_ttl,
                    processed_messages, arq_jobs >>

\* The answer has been sent: the slot is free for the next request.
Release(r) ==
    /\ pc[r] = "done"
    /\ pc' = [pc EXCEPT ![r] = "idle"]
    /\ body' = [body EXCEPT ![r] = NoBody]
    /\ x_webhook_secret' = [x_webhook_secret EXCEPT ![r] = "None"]
    /\ response' = [response EXCEPT ![r] = "none"]
    /\ UNCHANGED << now, clock, redis_client, redis_zsets, redis_ttl, processed_messages,
                    session_pending, arq_jobs >>

\* Time passes.
Tick(limit) ==
    /\ clock < limit
    /\ clock' = clock + 1
    /\ UNCHANGED << pc, x_webhook_secret, body, now, response, redis_client, redis_zsets, redis_ttl,
                    processed_messages, session_pending, arq_jobs >>

\* Redis drops a rate:<group_id> key whose EXPIRE deadline has passed.
RedisExpire(g) ==
    /\ redis_ttl[g] >= 0
    /\ clock >= redis_ttl[g]
    /\ redis_zsets' = [redis_zsets EXCEPT ![g] = {}]
    /\ redis_ttl' = [redis_ttl EXCEPT ![g] = -1]
    /\ UNCHANGED << pc, x_webhook_secret, body, now, response, clock, redis_client, processed_messages,
                    session_pending, arq_jobs >>

(***************************************************************************)
(* History                                                                  *)
(***************************************************************************)

Arrives(r) == pc[r] = "idle" /\ pc'[r] \notin {"idle", "done"}

NewlyAnswered(what) ==
    { body[r].messageId : r \in { q \in Requests : pc[q] # "done" /\ response'[q] = what } }

\* What Spec records of a step: the messageIds answered so far, and for each
\* request in flight what had been answered for its messageId when it arrived.
ObserveIntake ==
    /\ accepted_ids' = accepted_ids \cup NewlyAnswered("accepted")
    /\ enqueue_failed_ids' = enqueue_failed_ids \cup NewlyAnswered("500_enqueue")
    /\ seen_accepted' =
           [r \in Requests |->
               IF Arrives(r) THEN body'[r].messageId \in accepted_ids
               ELSE IF pc'[r] = "idle" THEN FALSE ELSE seen_accepted[r]]
    /\ seen_enqueue_failed' =
           [r \in Requests |->
               IF Arrives(r) THEN body'[r].messageId \in enqueue_failed_ids
               ELSE IF pc'[r] = "idle" THEN FALSE ELSE seen_enqueue_failed[r]]

(***************************************************************************)
(* Spec: the intake gateway                                                *)
(***************************************************************************)

\* What a step of Spec leaves alone, and what it records.
IntakeFrame == ObserveIntake /\ UNCHANGED << rateHist, burstHist, serialHist,
        dedupHist, agentVars, agentHist, serviceVars >>

NextIntake ==
    \/ \E r \in Requests, b \in IntakeBodies, header \in Headers :
           Receive(r, b, header) /\ IntakeFrame
    \/ \E r \in Requests : check_rate_limit(r) /\ IntakeFrame
    \/ \E r \in Requests : RatePipelineFails(r) /\ IntakeFrame
    \/ \E r \in Requests : Deduplicate(r) /\ IntakeFrame
    \/ \E r \in Requests : mark_as_processed(r) /\ IntakeFrame
    \/ \E r \in Requests : Commit(r) /\ IntakeFrame
    \/ \E r \in Requests : Enqueue(r) /\ IntakeFrame
    \/ \E r \in Requests : EnqueueFails(r) /\ IntakeFrame
    \/ \E r \in Requests : Release(r) /\ IntakeFrame
    \/ Tick(IntakeMaxClock) /\ IntakeFrame

\* site_repo.get_by_group_id finds no row.
NoSite == 0

\* redis GET of a key that does not exist.
Nil == << >>

\* The callers of SiteCache.get in flight at once, and the one writer of sites.
Getters == {1, 2}

Writers == {1}

\* The operations of BridgeClient that send a message to a group.
BridgeOps == {"send_message", "send_messages", "send_document", "schedule_message"}

\* The services after construction: SiteCache.__init__ (no client); the
\* sites table holds a row for the groups of Sites; no call is in flight.
InitServices ==
    /\ sites_table = [g \in Groups |-> IF g \in Sites THEN 1 ELSE NoSite]
    /\ site_cache_redis = FALSE
    /\ site_redis = [g \in Groups |-> Nil]
    /\ site_redis_ttl = [g \in Groups |-> 0]
    /\ gpc = [c \in Getters |-> "idle"]
    /\ g_group = [c \in Getters |-> "none"]
    /\ g_site = [c \in Getters |-> NoSite]
    /\ g_result = [c \in Getters |-> NoSite]
    /\ wpc = [w \in Writers |-> "idle"]
    /\ w_kind = [w \in Writers |-> "none"]
    /\ w_group = [w \in Writers |-> "none"]
    /\ w_found = [w \in Writers |-> FALSE]
    /\ g_floor = [c \in Getters |-> NoSite]
    /\ g_cache_error = [c \in Getters |-> FALSE]
    /\ g_read_db = [c \in Getters |-> FALSE]
    /\ g_missed = [c \in Getters |-> FALSE]
    /\ w_committed = [w \in Writers |-> FALSE]
    /\ w_invalidated = [w \in Writers |-> FALSE]
    /\ published = [g \in Groups |-> IF g \in Sites THEN 1 ELSE NoSite]
    /\ bpc = [op \in BridgeOps |-> "idle"]
    /\ attempt_number = [op \in BridgeOps |-> 0]
    /\ b_error = [op \in BridgeOps |-> "none"]
    /\ b_raised = [op \in BridgeOps |-> "none"]

\* The ids of the sites that have rows (Site.id), and the add_defect calls
\* in flight at once.
SiteIds == {1, 2}

DefectCallers == {1, 2, 3}

InitDefect ==
    /\ d_pc = [c \in DefectCallers |-> "idle"]
    /\ d_site = [c \in DefectCallers |-> NoSite]
    /\ next_id = [c \in DefectCallers |-> 0]
    /\ d_result = [c \in DefectCallers |-> "none"]
    /\ defects = [s \in SiteIds |-> << >>]
    /\ advisory_lock = [s \in SiteIds |-> 0]
    /\ d_waited = [c \in DefectCallers |-> FALSE]

\* The send_pdf_report calls in flight at once.
ReportCallers == {1, 2}

InitReport ==
    /\ r_pc = [c \in ReportCallers |-> "idle"]
    /\ elapsed = [c \in ReportCallers |-> 0]
    /\ r_result = [c \in ReportCallers |-> "none"]
    /\ r_error = [c \in ReportCallers |-> "none"]
    /\ r_documents = [c \in ReportCallers |-> 0]

InitStt ==
    /\ stt_pc = "idle"
    /\ stt_elapsed = 0
    /\ stt_result = "none"
    /\ stt_polls = 0

InitTools == InitDefect /\ InitReport /\ InitStt

Init == InitIntake /\ InitAgent /\ InitServices /\ InitTools

Next == NextIntake

Spec == Init /\ [][Next]_vars

(***************************************************************************)
(* SpecDedup: the dedup repository under its callers                       *)
(* (tests/unit/test_db_repositories.py: mark, commit, then ask)            *)
(***************************************************************************)

\* A caller opens a session and calls mark_as_processed(session, id, group).
DedupCall(r, b) ==
    /\ pc[r] = "idle"
    /\ pc' = [pc EXCEPT ![r] = "mark"]
    /\ body' = [body EXCEPT ![r] = b]
    /\ UNCHANGED << x_webhook_secret, now, response, clock, redis_client, redis_zsets, redis_ttl,
                    processed_messages, session_pending, arq_jobs >>

\* After its commit the caller asks is_already_processed for the same id.
DedupAsk(r) ==
    /\ pc[r] = HandlerOrder("commit")
    /\ Finish(r, IF is_already_processed(processed_messages, body[r].messageId)
                 THEN "processed" ELSE "not_processed")
    /\ UNCHANGED << x_webhook_secret, body, clock, redis_client, redis_zsets, redis_ttl,
                    processed_messages, arq_jobs >>

\* History: the mark_as_processed + commit pairs completed, per messageId.
ObserveDedup ==
    mark_commits' =
        [m \in MessageIds |->
            IF /\ mark_commits[m] < 2
               /\ \E r \in Requests :
                      body[r].messageId = m /\ pc[r] = "commit" /\ pc'[r] # "commit"
            THEN mark_commits[m] + 1
            ELSE mark_commits[m]]

DedupFrame == ObserveDedup /\ UNCHANGED << intakeHist, rateHist, burstHist, serialHist,
        agentVars, agentHist, serviceVars >>

NextDedup ==
    \/ \E r \in Requests, b \in Bodies : DedupCall(r, b) /\ DedupFrame
    \/ \E r \in Requests : mark_as_processed(r) /\ DedupFrame
    \/ \E r \in Requests : Commit(r) /\ DedupFrame
    \/ \E r \in Requests : DedupAsk(r) /\ DedupFrame
    \/ \E r \in Requests : Release(r) /\ DedupFrame

SpecDedup == Init /\ [][NextDedup]_vars

(***************************************************************************)
(* SpecRate: check_rate_limit under concurrent callers                     *)
(***************************************************************************)

\* check_rate_limit returned without raising: the caller goes on.
RateAdmitted(r) ==
    /\ pc[r] = "dedup"
    /\ pc' = [pc EXCEPT ![r] = "idle"]
    /\ body' = [body EXCEPT ![r] = NoBody]
    /\ x_webhook_secret' = [x_webhook_secret EXCEPT ![r] = "None"]
    /\ UNCHANGED << now, response, clock, redis_client, redis_zsets, redis_ttl,
                    processed_messages, session_pending, arq_jobs >>

PipelineRan(r) ==
    pc[r] = "rate" /\ pc'[r] # "rate" /\ response'[r] # "500_redis"

\* History: the run of calls of each group, and for each call in flight its
\* rank in the run and the entries its pipeline counted.
ObserveRate ==
    /\ rl_run' =
           [g \in Groups |->
               IF \E r \in Requests : PipelineRan(r) /\ body[r].groupId = g
               THEN LET r == CHOOSE q \in Requests : PipelineRan(q) /\ body[q].groupId = g
                    IN RunAfter(rl_run[g], redis_zsets[g], now[r])
               ELSE IF redis_zsets'[g] = {} THEN NoRun ELSE rl_run[g]]
    /\ rl_rank' =
           [r \in Requests |->
               IF PipelineRan(r) THEN rl_run'[body[r].groupId].n
               ELSE IF pc'[r] = "idle" THEN 0 ELSE rl_rank[r]]
    /\ rl_entries' =
           [r \in Requests |->
               IF PipelineRan(r) THEN ZCard(redis_zsets'[body[r].groupId])
               ELSE IF pc'[r] = "idle" THEN 0 ELSE rl_entries[r]]

RateFrame == ObserveRate /\ UNCHANGED << intakeHist, burstHist, serialHist,
        dedupHist, agentVars, agentHist, serviceVars >>

NextRate ==
    \/ \E r \in Requests, b \in RateBodies : Receive(r, b, WEBHOOK_SECRET) /\ RateFrame
    \/ \E r \in Requests : check_rate_limit(r) /\ RateFrame
    \/ \E r \in Requests : RatePipelineFails(r) /\ RateFrame
    \/ \E r \in Requests : RateAdmitted(r) /\ RateFrame
    \/ \E r \in Requests : Release(r) /\ RateFrame
    \/ Tick(MaxClock) /\ RateFrame
    \/ \E g \in Groups : RedisExpire(g) /\ RateFrame

SpecRate == Init /\ [][NextRate]_vars

(***************************************************************************)
(* SpecBurst: concurrent calls of the rate limiter for one group           *)
(***************************************************************************)

\* History: the call of a request is admitted; it is counted at the clock
\* value it read.
ObserveBurst ==
    rl_admitted' =
        [g \in Groups |-> [t \in 0..MaxClock |->
            IF \E r \in Requests :
                   /\ pc[r] = "rate" /\ pc'[r] = "dedup"
                   /\ body[r].groupId = g /\ now[r] = t
            THEN IF rl_admitted[g][t] > RATE_LIMIT_MAX_MESSAGES
                 THEN rl_admitted[g][t] ELSE rl_admitted[g][t] + 1
            ELSE rl_admitted[g][t]]]

BurstFrame ==
    ObserveBurst
    /\ UNCHANGED << intakeHist, rateHist, serialHist, dedupHist, agentVars, agentHist, serviceVars >>

NextBurst ==
    \/ \E r \in Requests, b \in IntakeBodies : Receive(r, b, WEBHOOK_SECRET) /\ BurstFrame
    \/ \E r \in Requests : check_rate_limit(r) /\ BurstFrame
    \/ \E r \in Requests : RatePipelineFails(r) /\ BurstFrame
    \/ \E r \in Requests : RateAdmitted(r) /\ BurstFrame
    \/ \E r \in Requests : Release(r) /\ BurstFrame
    \/ Tick(MaxClock) /\ BurstFrame
    \/ \E g \in Groups : RedisExpire(g) /\ BurstFrame

SpecBurst == Init /\ [][NextBurst]_vars

(***************************************************************************)
(* SpecSerial: the gateway serving one request at a time, over a long clock *)
(***************************************************************************)

SerialRequests == {1}

\* History: "rejected" while every delivery of the messageId that reached the
\* limiter was answered 429; "readmitted" while the first delivery to pass the
\* limiter after that is being handled; "passed" otherwise, once one has passed.
ObserveSerial ==
    limiter_fate' =
        [m \in MessageIds |->
            IF \E r \in Requests : body[r].messageId = m /\ pc[r] = "rate" /\ response'[r] = "429"
            THEN (IF limiter_fate[m] = "none" THEN "rejected" ELSE limiter_fate[m])
            ELSE IF \E r \in Requests :
                        body'[r].messageId = m /\ pc[r] \in {"idle", "rate"} /\ pc'[r] = "dedup"
            THEN (IF limiter_fate[m] = "rejected" THEN "readmitted" ELSE "passed")
            ELSE IF \E r \in Requests : body[r].messageId = m /\ pc[r] = "done" /\ pc'[r] = "idle"
            THEN (IF limiter_fate[m] = "readmitted" THEN "passed" ELSE limiter_fate[m])
            ELSE limiter_fate[m]]

SerialFrame ==
    ObserveSerial
    /\ UNCHANGED << intakeHist, rateHist, burstHist, dedupHist, agentVars, agentHist, serviceVars >>

NextSerial ==
    \/ \E r \in SerialRequests, b \in IntakeBodies, header \in Headers :
           Receive(r, b, header) /\ SerialFrame
    \/ \E r \in SerialRequests : check_rate_limit(r) /\ SerialFrame
    \/ \E r \in SerialRequests : RatePipelineFails(r) /\ SerialFrame
    \/ \E r \in SerialRequests : Deduplicate(r) /\ SerialFrame
    \/ \E r \in SerialRequests : mark_as_processed(r) /\ SerialFrame
    \/ \E r \in SerialRequests : Commit(r) /\ SerialFrame
    \/ \E r \in SerialRequests : Enqueue(r) /\ SerialFrame
    \/ \E r \in SerialRequests : EnqueueFails(r) /\ SerialFrame
    \/ \E r \in SerialRequests : Release(r) /\ SerialFrame
    \/ Tick(SerialMaxClock) /\ SerialFrame
    \/ \E g \in Groups : RedisExpire(g) /\ SerialFrame

SpecSerial == Init /\ [][NextSerial]_vars

(***************************************************************************)
(* The worker: ARQ's handling of a job, run_agent and the graph's nodes    *)
(***************************************************************************)

\* The positions of run_agent from which the turn is still inside
\* graph.ainvoke or the compaction that follows it (the try block).
InTry == {"preprocess", "transcribe", "build_input", "agent", "tools",
          "post_process", "send_reply", "compact"}

\* Mutant of route_preprocess: the site is not looked at.
route_preprocess_SkipsSiteCheck(state, m) ==
    IF sonioxFileId(m) # "None" THEN "transcribe" ELSE "build_input"

\* graph.py route_preprocess: END for an unknown site (ainvoke returns and
\* run_agent goes on to the compaction), transcribe for a voice message.
route_preprocess(state, m) ==
    IF ~state.site THEN "compact"
    ELSE IF sonioxFileId(m) # "None" THEN "transcribe"
    ELSE "build_input"

\* Mutant of route_after_agent: tool calls are always executed.
route_after_agent_NoCap(state) ==
    LET last == state.messages[Len(state.messages)]
        has_tool_calls == last.tool_calls
    IN  IF has_tool_calls THEN "tools" ELSE "post_process"

\* graph.py route_after_agent.
route_after_agent_CapAfter(state) ==
    LET last == state.messages[Len(state.messages)]
        has_tool_calls == last.tool_calls
        over_limit == state.iteration_count > AGENT_MAX_ITERATIONS
    IN  IF has_tool_calls /\ ~over_limit THEN "tools" ELSE "post_process"

route_after_agent(state) ==
    LET last == state.messages[Len(state.messages)]
        has_tool_calls == last.tool_calls
        over_limit == state.iteration_count >= AGENT_MAX_ITERATIONS
    IN  IF has_tool_calls /\ ~over_limit THEN "tools" ELSE "post_process"

\* Mutant of is_reply: any entry with a non-blank content is taken.
is_reply_AnyText(msg) == msg.content # ""

\* graph.py send_reply_node, the test of the loop body: the content is a
\* string that is not blank after strip(), the entry carries no tool calls and
\* its class is not ToolMessage. (No other test: the class may be HumanMessage.)
is_reply(msg) ==
    /\ msg.content # ""
    /\ ~msg.tool_calls
    /\ msg.type # "tool"

\* graph.py send_reply_node, `for msg in reversed(messages)`: the loop looks at
\* entry i, breaks when the entry passes the test, and goes on to the entry
\* before it otherwise. 0: the loop ran out, reply_text stays "".
RECURSIVE reply_scan(_, _)
reply_scan(messages, i) ==
    IF i = 0 THEN 0
    ELSE IF is_reply(messages[i]) THEN i
    ELSE reply_scan(messages, i - 1)

\* The index of the entry whose content send_reply_node sends (0: none).
ReplyIndex(messages) == reply_scan(messages, Len(messages))

\* run_agent's handling of an exception raised inside the try block: the
\* except clause re-raises, and the finally clause runs confirm_processing first.
AfterRaise_NoFinally == "done"

AfterRaise == "confirm"

\* A node has returned: its update is applied to the turn's state, the
\* checkpointer saves the state on the thread, and the turn moves on.
StepTo(m, state, next) ==
    /\ st' = [st EXCEPT ![m] = state]
    /\ checkpoint' = [checkpoint EXCEPT ![session_id(GroupOf(m))] = state]
    /\ apc' = [apc EXCEPT ![m] = next]

\* A node has raised: nothing of the step is saved, run_agent leaves the try block.
Raise(m, what) ==
    /\ err' = [err EXCEPT ![m] = what]
    /\ apc' = [apc EXCEPT ![m] = AfterRaise]

\* The step of m's turn has a side effect: a tool ran (tools node returned), or
\* send_reply_node sent the reply.
Effect(m) ==
    \/ apc[m] = "tools" /\ apc'[m] = "agent"
    \/ /\ apc[m] = "send_reply"
       /\ apc'[m] = "compact"
       /\ ReplyIndex(st[m].messages) # 0

\* main.py: enqueue_job("process_message", body) of the accepted request.
JobArrives(m) ==
    /\ job_status[m] = "none"
    /\ job_status' = [job_status EXCEPT ![m] = "queued"]
    /\ UNCHANGED << job_try, apc, st, err, checkpoint, worker_up, turnHist >>

\* ARQ starts an attempt of the job: process_message calls run_agent, which
\* hands initial_state to graph.ainvoke on the thread of the message's group.
StartJob(m) ==
    LET g == GroupOf(m) IN
    /\ worker_up
    /\ Cardinality({ o \in MessageIds : job_status[o] = "running" }) < MaxJobs
    /\ job_status[m] = "queued"
    /\ job_try[m] < max_tries
    /\ job_status' = [job_status EXCEPT ![m] = "running"]
    /\ job_try' = [job_try EXCEPT ![m] = @ + 1]
    /\ StepTo(m, InitialState(checkpoint[session_id(g)]), "preprocess")
    /\ prev_tool' = [prev_tool EXCEPT ![m] =
           /\ last_turn_tool[g]
           /\ \A o \in MessageIds : GroupOf(o) = g => apc[o] = "idle"]
    /\ UNCHANGED << err, worker_up, ack_failed, acks, tools_in_turn, last_turn_tool,
                    reply_sent >>

\* ARQ finds the job's retry counter at max_tries: the job fails unrun.
ArqGiveUp(m) ==
    /\ worker_up
    /\ job_status[m] = "queued"
    /\ job_try[m] >= max_tries
    /\ job_status' = [job_status EXCEPT ![m] = "failed"]
    /\ UNCHANGED << job_try, apc, st, err, checkpoint, worker_up, turnHist >>

\* graph.py preprocess_node: site_cache.get returns the group's site or None.
preprocess_node(m) ==
    /\ apc[m] = "preprocess"
    /\ LET found == GroupOf(m) \in Sites
           state == IF found
                    THEN [st[m] EXCEPT !.site = TRUE, !.tool_was_called = FALSE,
                                       !.iteration_count = 0]
                    ELSE [st[m] EXCEPT !.site = FALSE]
       IN  StepTo(m, state, route_preprocess(state, m))
    /\ UNCHANGED << job_status, job_try, err, worker_up, turnHist >>

\* graph.py transcribe_node: soniox_service.transcribe returns the text, or
\* raises TimeoutError / RuntimeError (caught: the transcript is "").
transcribe_node(m, text) ==
    /\ apc[m] = "transcribe"
    /\ StepTo(m, [st[m] EXCEPT !.transcript = text], "build_input")
    /\ UNCHANGED << job_status, job_try, err, worker_up, turnHist >>

\* transcribe_node: the service answers with an HTTP error status
\* (httpx.HTTPStatusError, which the node does not catch).
TranscribeRaises(m) ==
    /\ apc[m] = "transcribe"
    /\ Raise(m, "stt")
    /\ UNCHANGED << job_status, job_try, st, checkpoint, worker_up, turnHist >>

\* graph.py build_input_node: text = messageText or transcript or "".
build_input_node(m) ==
    /\ apc[m] = "build_input"
    /\ Len(st[m].messages) < MaxHistory
    /\ LET text == IF messageText(m) \notin {"None", ""} THEN messageText(m)
                   ELSE IF st[m].transcript \notin {"None", ""} THEN st[m].transcript
                   ELSE ""
           state == [st[m] EXCEPT
                        !.messages = add_messages(@, << HumanMessage(text) >>)]
       IN  StepTo(m, state, "agent")
    /\ UNCHANGED << job_status, job_try, err, worker_up, turnHist >>

\* agent_node: messages_for_llm = [SystemMessage(...)] + list(state["messages"]).
messages_for_llm(state) == << SystemMessage >> \o state.messages

\* Mutant of agent_update: the node returns what it sent along with the response.
agent_update_WholeInput(input, ai_message) == input \o << ai_message >>

\* agent_node: the "messages" of the update it returns, [response].
agent_update(input, ai_message) == << ai_message >>

\* graph.py agent_node, and the routing that follows it: the model answers
\* with tool calls, with a text, or with neither (response: "tool_calls",
\* "text", "blank").
agent_node(m, response_kind) ==
    /\ apc[m] = "agent"
    /\ Len(st[m].messages) < MaxHistory
    /\ LET calls == response_kind = "tool_calls"
           content == IF response_kind = "text" THEN "text" ELSE ""
           input == messages_for_llm(st[m])
           ai_message == AIMessage(content, calls)
           state == [st[m] EXCEPT
                        !.messages = add_messages(@, agent_update(input, ai_message)),
                        !.tool_was_called = calls,
                        !.iteration_count = @ + 1]
       IN  StepTo(m, state, route_after_agent(state))
    /\ UNCHANGED << job_status, job_try, err, worker_up, turnHist >>

\* agent_node: the model call raises.
AgentRaises(m) ==
    /\ apc[m] = "agent"
    /\ Raise(m, "reasoning")
    /\ UNCHANGED << job_status, job_try, st, checkpoint, worker_up, turnHist >>

\* The tools node (ToolNode): the requested tool runs (add_defect commits its
\* row and messages the group) and its result is appended.
tool_node(m) ==
    /\ apc[m] = "tools"
    /\ Len(st[m].messages) < MaxHistory
    /\ StepTo(m, [st[m] EXCEPT !.messages = add_messages(@, << ToolMessage >>)],
              "agent")
    /\ tools_in_turn' = [tools_in_turn EXCEPT ![m] = @ + 1]
    /\ UNCHANGED << job_status, job_try, err, worker_up, ack_failed, acks, prev_tool,
                    last_turn_tool, reply_sent >>

\* The tools node raises.
ToolRaises(m) ==
    /\ apc[m] = "tools"
    /\ Raise(m, "tool")
    /\ tools_in_turn' = [tools_in_turn EXCEPT ![m] = @ + 1]
    /\ UNCHANGED << job_status, job_try, st, checkpoint, worker_up, ack_failed, acks,
                    prev_tool, last_turn_tool, reply_sent >>

\* graph.py post_process_node.
post_process_node(m) ==
    /\ apc[m] = "post_process"
    /\ StepTo(m, st[m], "send_reply")
    /\ UNCHANGED << job_status, job_try, err, worker_up, turnHist >>

\* graph.py send_reply_node: bridge.send_message when there is a reply text;
\* the graph then reaches END and ainvoke returns.
send_reply_node(m) ==
    LET i == ReplyIndex(st[m].messages) IN
    /\ apc[m] = "send_reply"
    /\ StepTo(m, st[m], "compact")
    /\ reply_sent' = [reply_sent EXCEPT ![m] =
           IF i # 0 THEN Append(@, st[m].messages[i]) ELSE @]
    /\ UNCHANGED << job_status, job_try, err, worker_up, ack_failed, acks, tools_in_turn,
                    prev_tool, last_turn_tool >>

\* send_reply_node: bridge.send_message raises (its attempts are used up).
SendReplyRaises(m) ==
    /\ apc[m] = "send_reply"
    /\ ReplyIndex(st[m].messages) # 0
    /\ Raise(m, "reply")
    /\ UNCHANGED << job_status, job_try, st, checkpoint, worker_up, turnHist >>

\* run_agent after ainvoke: aget_state, and aupdate_state(config,
\* {"messages": []}) when the snapshot's tool_was_called is set. The update
\* is merged into the stored history by the channel's reducer.
Compact(m) ==
    LET g == GroupOf(m)
        snapshot == checkpoint[session_id(g)]
    IN
    /\ apc[m] = "compact"
    /\ checkpoint' = [checkpoint EXCEPT ![session_id(g)] =
           IF snapshot.tool_was_called
           THEN [snapshot EXCEPT !.messages = add_messages(@, << >>)]
           ELSE snapshot]
    /\ apc' = [apc EXCEPT ![m] = "confirm"]
    /\ UNCHANGED << job_status, job_try, st, err, worker_up, turnHist >>

\* run_agent after ainvoke: aupdate_state raises.
CompactRaises(m) ==
    /\ apc[m] = "compact"
    /\ checkpoint[session_id(GroupOf(m))].tool_was_called
    /\ Raise(m, "compaction")
    /\ UNCHANGED << job_status, job_try, st, checkpoint, worker_up, turnHist >>

\* Mutant of AfterConfirm: an error of confirm_processing leaves the finally
\* clause and replaces what the turn raised.
AfterConfirm_AckErrorEscapes(turn_err, ack_ok) == IF ack_ok THEN turn_err ELSE "ack"

\* What run_agent ends with after the finally clause: an error of
\* confirm_processing is caught and logged there, so run_agent raises what the
\* turn raised ("none": it returns).
AfterConfirm(turn_err, ack_ok) == turn_err

\* run_agent's finally clause: bridge.confirm_processing(messageId) returns or
\* (its attempts used up) raises. run_agent then returns or re-raises.
Confirm(m, ack_ok) ==
    /\ apc[m] = "confirm"
    /\ acks' = [acks EXCEPT ![m] = @ + 1]
    /\ ack_failed' = [ack_failed EXCEPT ![m] = ~ack_ok]
    /\ err' = [err EXCEPT ![m] = AfterConfirm(err[m], ack_ok)]
    /\ apc' = [apc EXCEPT ![m] = "done"]
    /\ last_turn_tool' = [last_turn_tool EXCEPT ![GroupOf(m)] =
           err[m] = "none" /\ tools_in_turn[m] > 0]
    /\ UNCHANGED << job_status, job_try, st, checkpoint, worker_up,
                    tools_in_turn, prev_tool, reply_sent >>

\* Mutant of JobStatusAfter: process_message catches what run_agent raises.
JobStatusAfter_Swallowed(e) == IF e = "cancelled" THEN "queued" ELSE "complete"

\* process_message lets what run_agent raises through to ARQ: the job is
\* complete when it returned, failed when it raised, and (retry_jobs) stays
\* queued for another attempt when it was cancelled.
JobStatusAfter(e) ==
    IF e = "none" THEN "complete"
    ELSE IF e = "cancelled" THEN "queued"
    ELSE "failed"

\* ARQ records the attempt's end.
ArqFinish(m) ==
    /\ apc[m] = "done"
    /\ job_status' = [job_status EXCEPT ![m] = JobStatusAfter(err[m])]
    /\ apc' = [apc EXCEPT ![m] = "idle"]
    /\ st' = [st EXCEPT ![m] = EmptyState]
    /\ err' = [err EXCEPT ![m] = "none"]
    /\ acks' = [acks EXCEPT ![m] = 0]
    /\ ack_failed' = [ack_failed EXCEPT ![m] = FALSE]
    /\ tools_in_turn' = [tools_in_turn EXCEPT ![m] = 0]
    /\ prev_tool' = [prev_tool EXCEPT ![m] = FALSE]
    /\ reply_sent' = [reply_sent EXCEPT ![m] = << >>]
    /\ UNCHANGED << job_try, checkpoint, worker_up, last_turn_tool >>

\* The worker is told to stop: ARQ cancels the tasks of its running jobs, and
\* CancelledError is raised at the await each of them is suspended in.
WorkerShutdown ==
    /\ worker_up
    /\ \E m \in MessageIds : apc[m] \in InTry
    /\ worker_up' = FALSE
    /\ err' = [m \in MessageIds |-> IF apc[m] \in InTry THEN "cancelled" ELSE err[m]]
    /\ apc' = [m \in MessageIds |-> IF apc[m] \in InTry THEN AfterRaise ELSE apc[m]]
    /\ UNCHANGED << job_status, job_try, st, checkpoint, turnHist >>

\* The stopped worker's jobs have ended; a new worker process starts. The
\* checkpointer (MemorySaver) lives in the process: the new one is empty.
WorkerRestart ==
    /\ ~worker_up
    /\ \A m \in MessageIds : apc[m] = "idle"
    /\ worker_up' = TRUE
    /\ checkpoint' = [t \in Threads |-> EmptyState]
    /\ last_turn_tool' = [g \in Groups |-> FALSE]
    /\ UNCHANGED << job_status, job_try, apc, st, err, ack_failed, acks, tools_in_turn,
                    prev_tool, reply_sent >>

(***************************************************************************)
(* SpecAgent: the worker's turns (no worker shutdown: every job runs once) *)
(***************************************************************************)

AgentFrame == UNCHANGED << intakeVars, intakeHist, rateHist, burstHist, serialHist,
        dedupHist, queueHist, serviceVars >>

\* One step of the job of message m.
JobStep(m) ==
    \/ JobArrives(m) /\ AgentFrame
    \/ StartJob(m) /\ AgentFrame
    \/ preprocess_node(m) /\ AgentFrame
    \/ \E text \in {"text", ""} : transcribe_node(m, text) /\ AgentFrame
    \/ TranscribeRaises(m) /\ AgentFrame
    \/ build_input_node(m) /\ AgentFrame
    \/ \E response_kind \in {"tool_calls", "text", "blank"} :
           agent_node(m, response_kind) /\ AgentFrame
    \/ AgentRaises(m) /\ AgentFrame
    \/ tool_node(m) /\ AgentFrame
    \/ ToolRaises(m) /\ AgentFrame
    \/ post_process_node(m) /\ AgentFrame
    \/ send_reply_node(m) /\ AgentFrame
    \/ SendReplyRaises(m) /\ AgentFrame
    \/ Compact(m) /\ AgentFrame
    \/ CompactRaises(m) /\ AgentFrame
    \/ \E ack_ok \in BOOLEAN : Confirm(m, ack_ok) /\ AgentFrame
    \/ ArqFinish(m) /\ AgentFrame

NextAgent == \E m \in MessageIds : JobStep(m)

SpecAgent == Init /\ [][NextAgent]_vars

(***************************************************************************)
(* SpecQueue: one job, and a worker that is stopped and started again      *)
(***************************************************************************)

\* The job of the voice message m2.
QueueIds == {"m2"}

\* History: an attempt's first side effect counts the attempt; the count of
\* side-effecting attempts is kept per messageId across attempts.
ObserveQueue ==
    /\ effected' = [m \in MessageIds |->
           IF apc'[m] = "idle" THEN FALSE ELSE effected[m] \/ Effect(m)]
    /\ effect_attempts' = [m \in MessageIds |->
           IF Effect(m) /\ ~effected[m] THEN effect_attempts[m] + 1
           ELSE effect_attempts[m]]

QueueFrame ==
    /\ ObserveQueue
    /\ UNCHANGED << intakeVars, intakeHist, rateHist, burstHist, serialHist, dedupHist, serviceVars >>

\* One step of the job of message m, with the history of its side effects.
QueueStep(m) ==
    \/ JobArrives(m) /\ QueueFrame
    \/ StartJob(m) /\ QueueFrame
    \/ preprocess_node(m) /\ QueueFrame
    \/ \E text \in {"text", ""} : transcribe_node(m, text) /\ QueueFrame
    \/ TranscribeRaises(m) /\ QueueFrame
    \/ build_input_node(m) /\ QueueFrame
    \/ \E response_kind \in {"tool_calls", "text", "blank"} :
           agent_node(m, response_kind) /\ QueueFrame
    \/ AgentRaises(m) /\ QueueFrame
    \/ tool_node(m) /\ QueueFrame
    \/ ToolRaises(m) /\ QueueFrame
    \/ post_process_node(m) /\ QueueFrame
    \/ send_reply_node(m) /\ QueueFrame
    \/ SendReplyRaises(m) /\ QueueFrame
    \/ Compact(m) /\ QueueFrame
    \/ CompactRaises(m) /\ QueueFrame
    \/ \E ack_ok \in BOOLEAN : Confirm(m, ack_ok) /\ QueueFrame
    \/ ArqFinish(m) /\ QueueFrame

NextQueue ==
    \/ \E m \in QueueIds : QueueStep(m)
    \/ \E m \in QueueIds : ArqGiveUp(m) /\ QueueFrame
    \/ WorkerShutdown /\ QueueFrame
    \/ WorkerRestart /\ QueueFrame

SpecQueue == Init /\ [][NextQueue]_vars

(***************************************************************************)
(* The site cache (app/services/site_cache.py) and the writers of a site   *)
(***************************************************************************)

\* The operations that write a site.
WriteKinds == {"update_site", "delete_site", "update_logo"}

\* site_cache.py _load_from_db: the row of the group as a CachedSite (the
\* model tells the rows of a group apart by their version), or None.
_load_from_db(group_id) == sites_table[group_id]

\* json.dumps(asdict(site)) and CachedSite(**json.loads(raw)).
dumps(site) == << "json", site >>

loads(raw) == raw[2]

\* Mutant of AfterRedisGet: the database is read on a hit too.
AfterRedisGet_AlwaysLoad(cached) == "load_db"

\* SiteCache.get: a cached site is returned at once; None goes on to the database.
AfterRedisGet(cached) == IF cached # NoSite THEN "return" ELSE "load_db"

\* Mutant of AfterLoad: the result of the database is cached whatever it is.
AfterLoad_CacheNone(site) == "redis_set"

\* SiteCache.get: a site found in the database is written to the cache;
\* None is returned as it is.
AfterLoad(site) == IF site # NoSite THEN "redis_set" ELSE "return"

\* Mutant of OnCacheError: the error of the cache store leaves get.
OnCacheError_Raise(next) == "raised"

\* _redis_get / _redis_set: except Exception logs a warning; get goes on.
OnCacheError(next) == next

\* SiteCache.startup: the client is created.
SiteCacheStartup ==
    /\ ~site_cache_redis
    /\ site_cache_redis' = TRUE
    /\ UNCHANGED << sites_table, site_redis, site_redis_ttl, getVars, writeVars, cacheHist >>

\* SiteCache.shutdown, once the calls in flight have ended. The entries stay
\* in Redis.
SiteCacheShutdown ==
    /\ site_cache_redis
    /\ \A c \in Getters : gpc[c] = "idle"
    /\ \A w \in Writers : wpc[w] = "idle"
    /\ site_cache_redis' = FALSE
    /\ UNCHANGED << sites_table, site_redis, site_redis_ttl, getVars, writeVars, cacheHist >>

\* A second passes: the entries' remaining lifetimes go down, and Redis
\* removes the entries whose lifetime has ended.
SiteCacheTick ==
    /\ \E g \in Groups : site_redis[g] # Nil
    /\ site_redis_ttl' = [g \in Groups |->
           IF site_redis_ttl[g] > 0 THEN site_redis_ttl[g] - 1 ELSE 0]
    /\ site_redis' = [g \in Groups |->
           IF site_redis_ttl[g] <= 1 THEN Nil ELSE site_redis[g]]
    /\ UNCHANGED << sites_table, site_cache_redis, getVars, writeVars, g_floor, g_cache_error,
                    g_read_db, g_missed, w_committed, w_invalidated, published >>

\* A caller (preprocess_node, a tool) calls site_cache.get(group_id).
GetStart(c, group_id) ==
    /\ gpc[c] = "idle"
    /\ gpc' = [gpc EXCEPT ![c] = "redis_get"]
    /\ g_group' = [g_group EXCEPT ![c] = group_id]
    /\ g_floor' = [g_floor EXCEPT ![c] = published[group_id]]
    /\ g_missed' = [g_missed EXCEPT ![c] = FALSE]
    /\ UNCHANGED << sites_table, site_cache_redis, site_redis, site_redis_ttl, g_site,
                    g_result, writeVars, g_cache_error, g_read_db, w_committed,
                    w_invalidated, published >>

\* site_cache.py _redis_get: None without a client; the decoded entry, or
\* None when the key does not exist; None when the store raises (ok = FALSE).
\* get returns a cached site, and goes on to the database otherwise.
_redis_get(c, ok) ==
    LET g == g_group[c]
        raw == site_redis[g]
        cached == IF ~site_cache_redis \/ ~ok \/ raw = Nil THEN NoSite ELSE loads(raw)
        next == IF site_cache_redis /\ ~ok
                THEN OnCacheError(AfterRedisGet(cached))
                ELSE AfterRedisGet(cached)
    IN
    /\ gpc[c] = "redis_get"
    /\ site_cache_redis \/ ok
    /\ gpc' = [gpc EXCEPT ![c] = next]
    /\ g_result' = [g_result EXCEPT ![c] = IF next = "return" THEN cached ELSE @]
    /\ g_cache_error' = [g_cache_error EXCEPT ![c] = site_cache_redis /\ ~ok]
    /\ g_missed' = [g_missed EXCEPT ![c] = site_cache_redis /\ ok /\ raw = Nil]
    /\ UNCHANGED << sites_table, site_cache_redis, site_redis, site_redis_ttl, g_group,
                    g_site, writeVars, g_floor, g_read_db, w_committed, w_invalidated,
                    published >>

\* SiteCache.get on a miss: site = await self._load_from_db(group_id); None is
\* returned, a site goes on to the cache.
GetLoad(c) ==
    LET site == _load_from_db(g_group[c])
        next == AfterLoad(site)
    IN
    /\ gpc[c] = "load_db"
    /\ g_site' = [g_site EXCEPT ![c] = site]
    /\ g_read_db' = [g_read_db EXCEPT ![c] = TRUE]
    /\ gpc' = [gpc EXCEPT ![c] = next]
    /\ g_result' = [g_result EXCEPT ![c] = IF next = "return" THEN site ELSE @]
    /\ UNCHANGED << sites_table, site_cache_redis, site_redis, site_redis_ttl, g_group,
                    writeVars, g_floor, g_cache_error, g_missed, w_committed, w_invalidated,
                    published >>

\* site_cache.py _redis_set: nothing without a client; SETEX of the encoded
\* site with settings.SITE_CACHE_TTL_SECONDS; a warning when the store raises.
\* get then returns the site it loaded.
_redis_set(c, ok) ==
    LET g == g_group[c]
        written == site_cache_redis /\ ok
        next == IF site_cache_redis /\ ~ok THEN OnCacheError("return") ELSE "return"
    IN
    /\ gpc[c] = "redis_set"
    /\ site_cache_redis \/ ok
    /\ site_redis' = IF written THEN [site_redis EXCEPT ![g] = dumps(g_site[c])]
                     ELSE site_redis
    /\ site_redis_ttl' = IF written
                         THEN [site_redis_ttl EXCEPT ![g] = SITE_CACHE_TTL_SECONDS]
                         ELSE site_redis_ttl
    /\ gpc' = [gpc EXCEPT ![c] = next]
    /\ g_result' = [g_result EXCEPT ![c] = g_site[c]]
    /\ g_cache_error' = [g_cache_error EXCEPT ![c] = @ \/ (site_cache_redis /\ ~ok)]
    /\ UNCHANGED << sites_table, site_cache_redis, g_group, g_site, writeVars, g_floor,
                    g_read_db, g_missed, w_committed, w_invalidated, published >>

\* get has returned (or raised) to its caller.
GetReturn(c) ==
    /\ gpc[c] \in {"return", "raised"}
    /\ gpc' = [gpc EXCEPT ![c] = "idle"]
    /\ g_group' = [g_group EXCEPT ![c] = "none"]
    /\ g_site' = [g_site EXCEPT ![c] = NoSite]
    /\ g_result' = [g_result EXCEPT ![c] = NoSite]
    /\ g_floor' = [g_floor EXCEPT ![c] = NoSite]
    /\ g_cache_error' = [g_cache_error EXCEPT ![c] = FALSE]
    /\ g_read_db' = [g_read_db EXCEPT ![c] = FALSE]
    /\ g_missed' = [g_missed EXCEPT ![c] = FALSE]
    /\ UNCHANGED << sites_table, site_cache_redis, site_redis, site_redis_ttl, writeVars,
                    w_committed, w_invalidated, published >>

\* Mutant of AfterCommit: the writer returns once it has committed.
AfterCommit_NoInvalidate == "returned"

\* update_site / delete_site / update_logo: site_cache.invalidate(group_id)
\* follows the commit.
AfterCommit == "invalidate"

\* admin PATCH / DELETE /sites/{group_id}, or the update_logo tool, is called.
WriteStart(w, kind, group_id) ==
    /\ wpc[w] = "idle"
    /\ sites_table[group_id] < MaxVersion
    /\ wpc' = [wpc EXCEPT ![w] = "update"]
    /\ w_kind' = [w_kind EXCEPT ![w] = kind]
    /\ w_group' = [w_group EXCEPT ![w] = group_id]
    /\ UNCHANGED << sites_table, site_cache_redis, site_redis, site_redis_ttl, w_found,
                    getVars, g_floor, g_cache_error, g_read_db, g_missed, w_committed,
                    w_invalidated, published >>

\* site_repo.update (site_repo.disable for delete_site): None when the group
\* has no row (the writer answers 404, or "Error: site not found."), else the
\* row is changed in the writer's session.
SiteRepoUpdate(w) ==
    LET found == sites_table[w_group[w]] # NoSite IN
    /\ wpc[w] = "update"
    /\ w_found' = [w_found EXCEPT ![w] = found]
    /\ wpc' = [wpc EXCEPT ![w] = IF found THEN "commit" ELSE "returned"]
    /\ UNCHANGED << sites_table, site_cache_redis, site_redis, site_redis_ttl, w_kind,
                    w_group, getVars, cacheHist >>

\* session.commit() (update_logo: the end of session.begin()): the changed
\* row is in the database.
WriteCommit(w) ==
    /\ wpc[w] = "commit"
    /\ sites_table' = [sites_table EXCEPT ![w_group[w]] = @ + 1]
    /\ w_committed' = [w_committed EXCEPT ![w] = TRUE]
    /\ wpc' = [wpc EXCEPT ![w] = AfterCommit]
    /\ UNCHANGED << site_cache_redis, site_redis, site_redis_ttl, w_kind, w_group, w_found,
                    getVars, g_floor, g_cache_error, g_read_db, g_missed, w_invalidated,
                    published >>

\* SiteCache.invalidate: nothing without a client; DEL of the key; a warning
\* when the store raises (ok = FALSE). The writer then returns to its caller.
invalidate(w, ok) ==
    LET g == w_group[w] IN
    /\ wpc[w] = "invalidate"
    /\ site_cache_redis \/ ok
    /\ site_redis' = IF site_cache_redis /\ ok THEN [site_redis EXCEPT ![g] = Nil]
                     ELSE site_redis
    /\ site_redis_ttl' = IF site_cache_redis /\ ok THEN [site_redis_ttl EXCEPT ![g] = 0]
                         ELSE site_redis_ttl
    /\ w_invalidated' = [w_invalidated EXCEPT ![w] = TRUE]
    /\ published' = IF site_cache_redis /\ ok
                    THEN [published EXCEPT ![g] = sites_table[g]]
                    ELSE published
    /\ wpc' = [wpc EXCEPT ![w] = "returned"]
    /\ UNCHANGED << sites_table, site_cache_redis, w_kind, w_group, w_found, getVars,
                    g_floor, g_cache_error, g_read_db, g_missed, w_committed >>

\* The writer's caller has its answer.
WriteReturn(w) ==
    /\ wpc[w] = "returned"
    /\ wpc' = [wpc EXCEPT ![w] = "idle"]
    /\ w_kind' = [w_kind EXCEPT ![w] = "none"]
    /\ w_group' = [w_group EXCEPT ![w] = "none"]
    /\ w_found' = [w_found EXCEPT ![w] = FALSE]
    /\ w_committed' = [w_committed EXCEPT ![w] = FALSE]
    /\ w_invalidated' = [w_invalidated EXCEPT ![w] = FALSE]
    /\ UNCHANGED << sites_table, site_cache_redis, site_redis, site_redis_ttl, getVars,
                    g_floor, g_cache_error, g_read_db, g_missed, published >>

(***************************************************************************)
(* SpecCache: concurrent SiteCache.get calls and a writer of sites         *)
(***************************************************************************)

CacheFrame == UNCHANGED << intakeVars, intakeHist, rateHist, burstHist, serialHist,
        dedupHist, agentVars, agentHist, bridgeVars, toolVars >>

NextCache ==
    \/ SiteCacheStartup /\ CacheFrame
    \/ SiteCacheShutdown /\ CacheFrame
    \/ SiteCacheTick /\ CacheFrame
    \/ \E c \in Getters, g \in Groups : GetStart(c, g) /\ CacheFrame
    \/ \E c \in Getters, ok \in BOOLEAN : _redis_get(c, ok) /\ CacheFrame
    \/ \E c \in Getters : GetLoad(c) /\ CacheFrame
    \/ \E c \in Getters, ok \in BOOLEAN : _redis_set(c, ok) /\ CacheFrame
    \/ \E c \in Getters : GetReturn(c) /\ CacheFrame
    \/ \E w \in Writers, kind \in WriteKinds, g \in Groups : WriteStart(w, kind, g) /\ CacheFrame
    \/ \E w \in Writers : SiteRepoUpdate(w) /\ CacheFrame
    \/ \E w \in Writers : WriteCommit(w) /\ CacheFrame
    \/ \E w \in Writers, ok \in BOOLEAN : invalidate(w, ok) /\ CacheFrame
    \/ \E w \in Writers : WriteReturn(w) /\ CacheFrame

SpecCache == Init /\ [][NextCache]_vars

(***************************************************************************)
(* The bridge client (app/services/bridge_service.py)                      *)
(***************************************************************************)

\* What an attempt can raise: resp.raise_for_status(), the POST itself.
BridgeErrors == {"HTTPStatusError", "ConnectError"}

\* Mutant of stop: the call stops after the attempt that follows the last one.
stop_OneMore(n) == n > stop_after_attempt

\* tenacity stop_after_attempt: stop once this many attempts have been made.
stop(n) == n >= stop_after_attempt

\* @retry(..., reraise=True): the call raises the last attempt's error.
reraise(last_error) == last_error

\* A caller (a node, a tool) calls the operation: tenacity starts attempt 1.
BridgeCall(op) ==
    /\ bpc[op] = "idle"
    /\ bpc' = [bpc EXCEPT ![op] = "attempt"]
    /\ attempt_number' = [attempt_number EXCEPT ![op] = 1]
    /\ UNCHANGED << b_error, b_raised >>

\* One attempt: the POST and raise_for_status. The call returns when the
\* attempt succeeds; when it raises, tenacity raises its error if stop says
\* so and otherwise waits (wait_exponential) and makes the next attempt.
BridgeAttempt(op, outcome) ==
    /\ bpc[op] = "attempt"
    /\ IF outcome = "ok"
       THEN /\ bpc' = [bpc EXCEPT ![op] = "returned"]
            /\ UNCHANGED << attempt_number, b_error, b_raised >>
       ELSE /\ b_error' = [b_error EXCEPT ![op] = outcome]
            /\ IF stop(attempt_number[op])
               THEN /\ bpc' = [bpc EXCEPT ![op] = "raised"]
                    /\ b_raised' = [b_raised EXCEPT ![op] = reraise(outcome)]
                    /\ UNCHANGED attempt_number
               ELSE /\ attempt_number' = [attempt_number EXCEPT ![op] = @ + 1]
                    /\ UNCHANGED << bpc, b_raised >>

\* The caller has the call's outcome.
BridgeDone(op) ==
    /\ bpc[op] \in {"returned", "raised"}
    /\ bpc' = [bpc EXCEPT ![op] = "idle"]
    /\ attempt_number' = [attempt_number EXCEPT ![op] = 0]
    /\ b_error' = [b_error EXCEPT ![op] = "none"]
    /\ b_raised' = [b_raised EXCEPT ![op] = "none"]

(***************************************************************************)
(* SpecBridge: calls of the bridge client's sending operations             *)
(***************************************************************************)

BridgeFrame == UNCHANGED << intakeVars, intakeHist, rateHist, burstHist, serialHist,
        dedupHist, agentVars, agentHist, cacheVars, getVars, writeVars, cacheHist,
        toolVars >>

NextBridge ==
    \/ \E op \in BridgeOps : BridgeCall(op) /\ BridgeFrame
    \/ \E op \in BridgeOps, outcome \in {"ok"} \cup BridgeErrors :
           BridgeAttempt(op, outcome) /\ BridgeFrame
    \/ \E op \in BridgeOps : BridgeDone(op) /\ BridgeFrame

SpecBridge == Init /\ [][NextBridge]_vars

(***************************************************************************)
(* add_defect (app/agent/tools/add_defect.py) and get_next_defect_id       *)
(* (app/db/repositories/defect_repo.py)                                    *)
(***************************************************************************)

\* Mutant of LockGranted: the lock statement returns whoever holds the key.
LockGranted_NoLock(holder) == TRUE

\* SELECT pg_advisory_xact_lock(:key) returns when no other transaction holds
\* the key; until then the statement waits.
LockGranted(holder) == holder = 0

\* select(func.max(Defect.defect_id)).where(site_id): the result's only
\* value, the highest defect_id of the site's committed rows, or NULL when
\* it has none (the set holds the value, and is empty for NULL).
MaxDefectId(rows) ==
    { d \in { rows[i] : i \in 1..Len(rows) } : \A i \in 1..Len(rows) : rows[i] <= d }

\* get_next_defect_id after the lock: current_max = result.scalar() or 0;
\* return current_max + 1.
get_next_defect_id(rows) ==
    LET scalar == MaxDefectId(rows)
        current_max == IF scalar = {} THEN 0 ELSE CHOOSE d \in scalar : TRUE
    IN  current_max + 1

\* The transaction of call c ends: its advisory lock is released.
ReleaseLock(c) ==
    advisory_lock' = [advisory_lock EXCEPT ![d_site[c]] = IF @ = c THEN 0 ELSE @]

\* add_defect is called: site_cache.get returns the group's site, or None
\* and the tool returns its error text.
AddDefectCall(c, site) ==
    /\ d_pc[c] = "idle"
    /\ d_site' = [d_site EXCEPT ![c] = site]
    /\ IF site = NoSite
       THEN /\ d_pc' = [d_pc EXCEPT ![c] = "done"]
            /\ d_result' = [d_result EXCEPT ![c] = "Error: site not found"]
       ELSE /\ Len(defects[site])
                + Cardinality({ o \in DefectCallers :
                                  d_site[o] = site /\ d_pc[o] \in {"lock", "select", "create", "commit"} })
                < MaxDefects
            /\ d_pc' = [d_pc EXCEPT ![c] = "lock"]
            /\ UNCHANGED d_result
    /\ UNCHANGED << next_id, defects, advisory_lock, d_waited >>

\* session.begin(), then get_next_defect_id's first statement: the lock.
AcquireLock(c) ==
    /\ d_pc[c] = "lock"
    /\ LockGranted(advisory_lock[d_site[c]])
    /\ advisory_lock' = [advisory_lock EXCEPT ![d_site[c]] = c]
    /\ d_pc' = [d_pc EXCEPT ![c] = "select"]
    /\ d_waited' = [o \in DefectCallers |->
           IF o # c /\ d_pc[o] = "lock" /\ d_site[o] = d_site[c] THEN TRUE ELSE d_waited[o]]
    /\ UNCHANGED << d_site, next_id, d_result, defects >>

\* get_next_defect_id's second statement and its return value (the statement
\* reads the rows committed so far).
SelectMax(c) ==
    /\ d_pc[c] = "select"
    /\ next_id' = [next_id EXCEPT ![c] = get_next_defect_id(defects[d_site[c]])]
    /\ d_pc' = [d_pc EXCEPT ![c] = "create"]
    /\ UNCHANGED << d_site, d_result, defects, advisory_lock, d_waited >>

\* defect_repo.create: session.flush() sends the INSERT. The unique
\* constraint (site_id, defect_id) makes it wait for an uncommitted row with
\* the same key, and fail (IntegrityError, the transaction is rolled back)
\* when a committed row has it.
create(c) ==
    LET s == d_site[c]
        taken == \E i \in 1..Len(defects[s]) : defects[s][i] = next_id[c]
    IN
    /\ d_pc[c] = "create"
    /\ ~\E o \in DefectCallers \ {c} :
           d_pc[o] = "commit" /\ d_site[o] = s /\ next_id[o] = next_id[c]
    /\ IF taken
       THEN /\ d_pc' = [d_pc EXCEPT ![c] = "done"]
            /\ d_result' = [d_result EXCEPT ![c] = "IntegrityError"]
            /\ next_id' = [next_id EXCEPT ![c] = 0]
            /\ ReleaseLock(c)
       ELSE /\ d_pc' = [d_pc EXCEPT ![c] = "commit"]
            /\ UNCHANGED << d_result, next_id, advisory_lock >>
    /\ UNCHANGED << d_site, defects, d_waited >>

\* The `async with session.begin()` block ends: COMMIT. The row is visible
\* to other transactions and the lock is released.
DefectCommit(c) ==
    /\ d_pc[c] = "commit"
    /\ defects' = [defects EXCEPT ![d_site[c]] = Append(@, next_id[c])]
    /\ ReleaseLock(c)
    /\ d_pc' = [d_pc EXCEPT ![c] = "notify"]
    /\ UNCHANGED << d_site, next_id, d_result, d_waited >>

\* A statement of the transaction raises (the database is unreachable): the
\* block rolls back, nothing is inserted, the lock is released, add_defect raises.
DefectRollback(c) ==
    /\ d_pc[c] \in {"select", "create", "commit"}
    /\ ReleaseLock(c)
    /\ next_id' = [next_id EXCEPT ![c] = 0]
    /\ d_pc' = [d_pc EXCEPT ![c] = "done"]
    /\ d_result' = [d_result EXCEPT ![c] = "raised"]
    /\ UNCHANGED << d_site, defects, d_waited >>

\* After the commit: the messages to the group, then "Defect #N added
\* successfully." (ok), or an error of the bridge leaves the tool.
AddDefectReturn(c, ok) ==
    /\ d_pc[c] = "notify"
    /\ d_pc' = [d_pc EXCEPT ![c] = "done"]
    /\ d_result' = [d_result EXCEPT ![c] = IF ok THEN "added" ELSE "raised"]
    /\ UNCHANGED << d_site, next_id, defects, advisory_lock, d_waited >>

\* The caller has the call's outcome.
AddDefectDone(c) ==
    /\ d_pc[c] = "done"
    /\ d_pc' = [d_pc EXCEPT ![c] = "idle"]
    /\ d_site' = [d_site EXCEPT ![c] = NoSite]
    /\ next_id' = [next_id EXCEPT ![c] = 0]
    /\ d_result' = [d_result EXCEPT ![c] = "none"]
    /\ d_waited' = [d_waited EXCEPT ![c] = FALSE]
    /\ UNCHANGED << defects, advisory_lock >>

DefectFrame == UNCHANGED << intakeVars, intakeHist, rateHist, burstHist, serialHist,
        dedupHist, agentVars, agentHist, cacheVars, getVars, writeVars, cacheHist,
        bridgeVars, reportVars, sttVars >>

NextDefect ==
    \/ \E c \in DefectCallers, site \in SiteIds \cup {NoSite} :
           AddDefectCall(c, site) /\ DefectFrame
    \/ \E c \in DefectCallers : AcquireLock(c) /\ DefectFrame
    \/ \E c \in DefectCallers : SelectMax(c) /\ DefectFrame
    \/ \E c \in DefectCallers : create(c) /\ DefectFrame
    \/ \E c \in DefectCallers : DefectCommit(c) /\ DefectFrame
    \/ \E c \in DefectCallers : DefectRollback(c) /\ DefectFrame
    \/ \E c \in DefectCallers, ok \in BOOLEAN : AddDefectReturn(c, ok) /\ DefectFrame
    \/ \E c \in DefectCallers : AddDefectDone(c) /\ DefectFrame

SpecDefect == Init /\ [][NextDefect]_vars

(***************************************************************************)
(* send_pdf_report (app/agent/tools/send_report.py) and                    *)
(* pdf_service.generate (app/services/pdf_service.py)                      *)
(***************************************************************************)

\* What a request of generate's httpx client ends with: a response with a
\* success status, a response with an error status (raise_for_status raises
\* httpx.HTTPStatusError), or no response (the client, built with timeout=30,
\* raises a transport error: httpx.ConnectError, httpx.ReadTimeout).
HttpOutcomes == {"ok", "HTTPStatusError", "TransportError"}

\* generate's try/except around a request: httpx.HTTPStatusError is raised
\* again as RuntimeError; any other exception passes through.
generate_raises(exc) == IF exc = "HTTPStatusError" THEN "RuntimeError" ELSE exc

\* send_pdf_report: except (RuntimeError, TimeoutError) as exc.
pdf_error_caught(exc) == exc \in {"RuntimeError", "TimeoutError"}

\* pdf_service.generate raises exc in call c: send_pdf_report returns the
\* failure text when its except clause matches, and raises exc otherwise.
GenerateRaises(c, exc) ==
    /\ r_error' = [r_error EXCEPT ![c] = exc]
    /\ r_pc' = [r_pc EXCEPT ![c] = "done"]
    /\ r_result' = [r_result EXCEPT ![c] =
           IF pdf_error_caught(exc) THEN "failure text" ELSE "raised"]

\* send_pdf_report is called: no site, no defect that matches the filters
\* (a message says so), or the template data is built and generate is called.
ReportCall(c, lookup) ==
    /\ r_pc[c] = "idle"
    /\ r_pc' = [r_pc EXCEPT ![c] = IF lookup = "defects" THEN "create" ELSE "done"]
    /\ r_result' = [r_result EXCEPT ![c] =
           IF lookup = "no site" THEN "Error: site not found."
           ELSE IF lookup = "no defects" THEN "No defects matched."
           ELSE "none"]
    /\ UNCHANGED << elapsed, r_error, r_documents >>

\* generate, 1: the request that creates the document generation job.
PdfCreate(c, outcome) ==
    /\ r_pc[c] = "create"
    /\ IF outcome = "ok"
       THEN /\ r_pc' = [r_pc EXCEPT ![c] = "poll"]
            /\ elapsed' = [elapsed EXCEPT ![c] = 0]
            /\ UNCHANGED << r_result, r_error >>
       ELSE /\ GenerateRaises(c, generate_raises(outcome))
            /\ UNCHANGED elapsed
    /\ UNCHANGED r_documents

\* generate, 2: one round of `while elapsed < MAX_POLL_SECONDS`: sleep, add
\* POLL_INTERVAL, ask for the job's status. "success" returns the download
\* url, "error" raises RuntimeError, any other status goes round again.
PdfPoll(c, outcome, status) ==
    /\ r_pc[c] = "poll"
    /\ elapsed[c] < MAX_POLL_SECONDS
    /\ elapsed' = [elapsed EXCEPT ![c] = @ + POLL_INTERVAL]
    /\ IF outcome # "ok"
       THEN GenerateRaises(c, generate_raises(outcome))
       ELSE IF status = "error"
       THEN GenerateRaises(c, "RuntimeError")
       ELSE /\ r_pc' = [r_pc EXCEPT ![c] =
                   IF status = "success" THEN "send_document" ELSE "poll"]
            /\ UNCHANGED << r_result, r_error >>
    /\ UNCHANGED r_documents

\* generate, after the loop: raise TimeoutError.
PdfTimeout(c) ==
    /\ r_pc[c] = "poll"
    /\ ~(elapsed[c] < MAX_POLL_SECONDS)
    /\ GenerateRaises(c, "TimeoutError")
    /\ UNCHANGED << elapsed, r_documents >>

\* send_pdf_report after generate returned: bridge.send_document, which
\* sends the document or (its attempts used up) raises.
SendDocument(c, ok) ==
    /\ r_pc[c] = "send_document"
    /\ r_pc' = [r_pc EXCEPT ![c] = "done"]
    /\ r_documents' = [r_documents EXCEPT ![c] = IF ok THEN @ + 1 ELSE @]
    /\ r_result' = [r_result EXCEPT ![c] = IF ok THEN "PDF sent" ELSE "raised"]
    /\ UNCHANGED << elapsed, r_error >>

\* The tools node has the call's outcome.
ReportDone(c) ==
    /\ r_pc[c] = "done"
    /\ r_pc' = [r_pc EXCEPT ![c] = "idle"]
    /\ elapsed' = [elapsed EXCEPT ![c] = 0]
    /\ r_result' = [r_result EXCEPT ![c] = "none"]
    /\ r_error' = [r_error EXCEPT ![c] = "none"]
    /\ r_documents' = [r_documents EXCEPT ![c] = 0]

ReportFrame == UNCHANGED << intakeVars, intakeHist, rateHist, burstHist, serialHist,
        dedupHist, agentVars, agentHist, cacheVars, getVars, writeVars, cacheHist,
        bridgeVars, defectVars, sttVars >>

NextReport ==
    \/ \E c \in ReportCallers, lookup \in {"no site", "no defects", "defects"} :
           ReportCall(c, lookup) /\ ReportFrame
    \/ \E c \in ReportCallers, outcome \in HttpOutcomes :
           PdfCreate(c, outcome) /\ ReportFrame
    \/ \E c \in ReportCallers, outcome \in HttpOutcomes,
          status \in {"pending", "success", "error"} :
           PdfPoll(c, outcome, status) /\ ReportFrame
    \/ \E c \in ReportCallers : PdfTimeout(c) /\ ReportFrame
    \/ \E c \in ReportCallers, ok \in BOOLEAN : SendDocument(c, ok) /\ ReportFrame
    \/ \E c \in ReportCallers : ReportDone(c) /\ ReportFrame

SpecReport == Init /\ [][NextReport]_vars

(***************************************************************************)
(* SpecTurn: one turn with soniox_service.transcribe's requests            *)
(* (app/services/soniox_service.py)                                        *)
(***************************************************************************)

\* The job of the voice message m2.
TurnIds == {"m2"}

\* transcribe_node: except (TimeoutError, RuntimeError): text = "".
stt_error_caught(exc) == exc \in {"TimeoutError", "RuntimeError"}

\* transcribe_node calls soniox_service.transcribe: 1. the request that
\* submits the job (raise_for_status: an error status raises
\* httpx.HTTPStatusError; without a response httpx raises a transport error).
SttSubmit(m, outcome) ==
    /\ apc[m] = "transcribe"
    /\ stt_pc = "idle"
    /\ IF outcome = "ok"
       THEN /\ stt_pc' = "poll"
            /\ UNCHANGED stt_result
       ELSE /\ stt_pc' = "done"
            /\ stt_result' = outcome
    /\ stt_elapsed' = 0
    /\ UNCHANGED stt_polls

\* 2. One round of `while elapsed < max_poll`: sleep, add POLL_INTERVAL, ask
\* for the job's status. "completed" leaves the loop, "failed" raises
\* RuntimeError, any other status goes round again.
SttPoll(outcome, status) ==
    /\ stt_pc = "poll"
    /\ stt_elapsed < STT_TIMEOUT_SECONDS
    /\ stt_elapsed' = stt_elapsed + SONIOX_POLL_INTERVAL
    /\ stt_polls' = stt_polls + 1
    /\ IF outcome # "ok"
       THEN stt_pc' = "done" /\ stt_result' = outcome
       ELSE IF status = "failed"
       THEN stt_pc' = "done" /\ stt_result' = "RuntimeError"
       ELSE /\ stt_pc' = IF status = "completed" THEN "fetch" ELSE "poll"
            /\ UNCHANGED stt_result

\* The loop's else clause: raise TimeoutError.
SttTimeout ==
    /\ stt_pc = "poll"
    /\ ~(stt_elapsed < STT_TIMEOUT_SECONDS)
    /\ stt_pc' = "done"
    /\ stt_result' = "TimeoutError"
    /\ UNCHANGED << stt_elapsed, stt_polls >>

\* 3. The request that fetches the transcript: its text, which may be "".
SttFetch(outcome, text) ==
    /\ stt_pc = "fetch"
    /\ stt_pc' = "done"
    /\ stt_result' = IF outcome = "ok" THEN text ELSE outcome
    /\ UNCHANGED << stt_elapsed, stt_polls >>

\* transcribe has returned or raised: transcribe_node returns the transcript
\* ("" for an error it catches), or the error leaves the node.
SttReturn(m) ==
    /\ stt_pc = "done"
    /\ stt_pc' = "returned"
    /\ IF stt_result \in {"text", ""} THEN transcribe_node(m, stt_result)
       ELSE IF stt_error_caught(stt_result) THEN transcribe_node(m, "")
       ELSE TranscribeRaises(m)
    /\ UNCHANGED << stt_elapsed, stt_result, stt_polls >>

\* What a step of the graph outside transcribe_node leaves alone.
TurnFrame == UNCHANGED << intakeVars, intakeHist, rateHist, burstHist, serialHist,
        dedupHist, queueHist, cacheVars, getVars, writeVars, cacheHist, bridgeVars,
        defectVars, reportVars, sttVars >>

\* What a request of transcribe leaves alone.
SttFrame == UNCHANGED << intakeVars, intakeHist, rateHist, burstHist, serialHist,
        dedupHist, agentVars, agentHist, cacheVars, getVars, writeVars, cacheHist,
        bridgeVars, defectVars, reportVars >>

\* What transcribe_node's return leaves alone.
SttReturnFrame == UNCHANGED << intakeVars, intakeHist, rateHist, burstHist, serialHist,
        dedupHist, queueHist, cacheVars, getVars, writeVars, cacheHist, bridgeVars,
        defectVars, reportVars >>

\* One step of the turn of message m.
TurnStep(m) ==
    \/ JobArrives(m) /\ TurnFrame
    \/ StartJob(m) /\ TurnFrame
    \/ preprocess_node(m) /\ TurnFrame
    \/ \E outcome \in HttpOutcomes : SttSubmit(m, outcome) /\ SttFrame
    \/ \E outcome \in HttpOutcomes, status \in {"processing", "completed", "failed"} :
           SttPoll(outcome, status) /\ SttFrame
    \/ SttTimeout /\ SttFrame
    \/ \E outcome \in HttpOutcomes, text \in {"text", ""} :
           SttFetch(outcome, text) /\ SttFrame
    \/ SttReturn(m) /\ SttReturnFrame
    \/ build_input_node(m) /\ TurnFrame
    \/ \E response_kind \in {"tool_calls", "text", "blank"} :
           agent_node(m, response_kind) /\ TurnFrame
    \/ AgentRaises(m) /\ TurnFrame
    \/ tool_node(m) /\ TurnFrame
    \/ ToolRaises(m) /\ TurnFrame
    \/ post_process_node(m) /\ TurnFrame
    \/ send_reply_node(m) /\ TurnFrame
    \/ SendReplyRaises(m) /\ TurnFrame
    \/ Compact(m) /\ TurnFrame
    \/ CompactRaises(m) /\ TurnFrame
    \/ \E ack_ok \in BOOLEAN : Confirm(m, ack_ok) /\ TurnFrame
    \/ ArqFinish(m) /\ TurnFrame

NextTurn == \E m \in TurnIds : TurnStep(m)

\* Fairness: the worker's event loop runs the job's task, and every call the
\* task awaits returns or raises; which of the two remains open.
SpecTurn == Init /\ [][NextTurn]_vars /\ WF_vars(NextTurn)

(***************************************************************************)
(* Claims checked under Spec                                               *)
(***************************************************************************)

InFlightPastCheck(m) ==
    \E r \in Requests : body[r].messageId = m /\ pc[r] \in {"mark", "commit", "enqueue"}

\* C1 (as claimed): of the executions of handle_message that carry the same
\* messageId, at most one calls enqueue_job: the queue never holds two jobs
\* for one messageId.
C1_AtMostOneEnqueue == \A m \in MessageIds : arq_jobs[m] <= 1

\* C6: when enqueue_job is called for a messageId, and ever after a job for
\* it is in the queue, the dedup record of that messageId is committed.
C6_DedupCommittedBeforeEnqueue ==
    /\ \A r \in Requests :
           pc[r] = "enqueue" =>
               /\ is_already_processed(processed_messages, body[r].messageId)
               /\ session_pending[r] = NoBody
    /\ \A m \in MessageIds :
           arq_jobs[m] > 0 => is_already_processed(processed_messages, m)

C6_Witness ==
    \E r \in Requests :
        pc[r] = "done" /\ response[r] = "accepted" /\ arq_jobs[body[r].messageId] > 0

C8_LaterRequestIsDuplicate ==
    /\ \A r \in Requests :
           seen_accepted[r] =>
               /\ pc[r] \in {"rate", "dedup", "done"}
               /\ pc[r] = "done" => response[r] \in {"duplicate", "429", "500_redis"}
    /\ \A m \in MessageIds : Len(processed_messages[m]) <= 1
    /\ \A r \in Requests :
           response[r] = "duplicate" =>
               is_already_processed(processed_messages, body[r].messageId)

C8_Witness ==
    /\ \E r \in Requests : seen_accepted[r] /\ response[r] = "duplicate"
    /\ \E m \in MessageIds : m \in accepted_ids /\ arq_jobs[m] = 1
    /\ Cardinality(accepted_ids) = 2

\* C13 (as claimed): the rate limiter never fails a request: without a Redis
\* client, or when the pipeline call fails, the request goes on to
\* deduplication and is not answered with an error of the limiter.
C13_LimiterFailsOpen ==
    \A r \in Requests :
        /\ response[r] # "500_redis"
        /\ (~redis_client /\ pc[r] \notin {"idle", "done"}) =>
               pc[r] \in {"dedup", "mark", "commit", "enqueue"}

\* C15: a request whose X-Webhook-Secret header is missing or is not
\* WEBHOOK_SECRET is answered 401 at once and takes no further step; the step
\* that answers it adds no entry to a rate window, writes no dedup record
\* (committed or pending) and enqueues no job.
C15_UnauthenticatedChangesNothing ==
    /\ [](\A r \in Requests :
              (pc[r] # "idle" /\ x_webhook_secret[r] # WEBHOOK_SECRET) =>
                  pc[r] = "done" /\ response[r] = "401")
    /\ [][\A r \in Requests :
              (pc[r] = "idle" /\ response'[r] = "401") =>
                  UNCHANGED << redis_zsets, redis_ttl, processed_messages,
                               session_pending, arq_jobs >>]_vars

\* One request without the header and one with a wrong value have been
\* answered 401 while a limiter is in place.
C15_Witness ==
    /\ redis_client
    /\ \E r, q \in Requests :
           /\ response[r] = "401" /\ x_webhook_secret[r] = "None"
           /\ response[q] = "401" /\ x_webhook_secret[q] = "wrong"

(***************************************************************************)
(* Claims checked under SpecDedup                                          *)
(***************************************************************************)

\* C9: however often mark_as_processed + commit has run for a messageId (once
\* or more), the outcome is that of one call: no call raises, exactly one
\* record of the messageId exists, and is_already_processed returns true.
C9_MarkIsIdempotent ==
    /\ \A r \in Requests : response[r] # "500_db"
    /\ \A m \in MessageIds :
           mark_commits[m] >= 1 => processed_messages[m] = << GroupOf(m) >>
    /\ \A r \in Requests : response[r] # "not_processed"

C9_Witness ==
    \E r \in Requests :
        /\ response[r] = "processed"
        /\ mark_commits[body[r].messageId] = 2
        /\ Len(processed_messages[body[r].messageId]) = 1

(***************************************************************************)
(* Claims checked under SpecRate                                           *)
(***************************************************************************)

C11_WindowsArePerGroup ==
    /\ [][\A r \in Requests :
              PipelineRan(r) =>
                  /\ \A h \in Groups \ {body[r].groupId} :
                         /\ redis_zsets'[h] = redis_zsets[h]
                         /\ redis_ttl'[h] = redis_ttl[h]
                  /\ response'[r] = "429" <=>
                         RateExceeded(RatePipelineCount(redis_zsets[body[r].groupId], now[r]))]_vars
    /\ [](\A r \in Requests :
              response[r] = "429" => rl_entries[r] > RATE_LIMIT_MAX_MESSAGES)

\* The limit of one group is exhausted (its last call was rejected), and a
\* call of the other group has just been admitted.
C11_Witness ==
    \E r, q \in Requests :
        /\ body[r].groupId # body[q].groupId
        /\ response[r] = "429"
        /\ ZCard(redis_zsets[body[r].groupId]) > RATE_LIMIT_MAX_MESSAGES
        /\ pc[q] = "dedup" /\ rl_entries[q] = 1

\* C14: a rejected call leaves its own entry in the group's window, and no
\* entry leaves a window before it is RATE_LIMIT_WINDOW_SECONDS old: the
\* rejected call is counted by every later call of the group until then.
C14_RejectedCallIsRecorded ==
    /\ [][\A r \in Requests :
              (PipelineRan(r) /\ response'[r] = "429") =>
                  [member |-> MemberOf(now[r]), score |-> now[r]]
                      \in redis_zsets'[body[r].groupId]]_vars
    /\ [][\A g \in Groups : \A e \in redis_zsets[g] :
              clock' - e.score < RATE_LIMIT_WINDOW_SECONDS => e \in redis_zsets'[g]]_vars

\* The last call of a group was rejected; a later call of the group, reading
\* a later clock value, is about to be rejected too, and would be admitted if
\* the rejected call had left no entry.
C14_Witness ==
    \E r, q \in Requests :
        LET g == body[r].groupId
            z == redis_zsets[g]
            top == CHOOSE e \in z : \A f \in z : f.score <= e.score
        IN  /\ response[r] = "429"
            /\ rl_rank[r] = RATE_LIMIT_MAX_MESSAGES + 1
            /\ rl_run[g].n = RATE_LIMIT_MAX_MESSAGES + 1
            /\ pc[q] = "rate" /\ body[q].groupId = g
            /\ now[q] > top.score
            /\ RateExceeded(RatePipelineCount(z, now[q]))
            /\ ~RateExceeded(RatePipelineCount(z \ {top}, now[q]))

(***************************************************************************)
(* Claims checked under SpecSerial                                         *)
(***************************************************************************)

\* C16: the step that answers a request 429 writes no dedup record (committed
\* or pending) and enqueues nothing; while every delivery of a messageId was
\* rejected there is no record and no job for it; and the first delivery of
\* it that passes the limiter afterwards is not answered "duplicate".
C16_RejectedLeavesNoRecord ==
    /\ [][\A r \in Requests :
              (pc[r] = "rate" /\ response'[r] = "429") =>
                  UNCHANGED << processed_messages, session_pending, arq_jobs >>]_vars
    /\ [](\A m \in MessageIds :
              limiter_fate[m] = "rejected" =>
                  /\ Len(processed_messages[m]) = 0
                  /\ arq_jobs[m] = 0
                  /\ \A r \in Requests : session_pending[r].messageId # m)
    /\ [](\A r \in Requests :
              (body[r] # NoBody /\ limiter_fate[body[r].messageId] = "readmitted") =>
                  response[r] # "duplicate")

\* A messageId was rejected by the limiter, and a later delivery of it has
\* been answered "accepted".
C16_Witness ==
    \E r \in Requests :
        /\ response[r] = "accepted"
        /\ limiter_fate[body[r].messageId] = "readmitted"
        /\ arq_jobs[body[r].messageId] = 1

\* C37: the rate window slides. A call's pipeline leaves no entry in the
\* group's window that is RATE_LIMIT_WINDOW_SECONDS old or older, and a call of
\* a group whose calls (each left an entry, the rejected ones too) are all more
\* than one window length in the past is admitted.
C37_WindowSlides ==
    [][\A r \in Requests :
          (pc[r] = "rate" /\ pc'[r] # "rate" /\ response'[r] # "500_redis") =>
              LET g == RateKey(body[r].groupId) IN
              /\ \A e \in redis_zsets'[g] :
                     now[r] - e.score < RATE_LIMIT_WINDOW_SECONDS
              /\ (\A e \in redis_zsets[g] :
                      now[r] - e.score > RATE_LIMIT_WINDOW_SECONDS)
                     => pc'[r] = "dedup"]_vars

\* A delivery that was rejected (its group's window held more than
\* RATE_LIMIT_MAX_MESSAGES entries) is admitted on a call made after the group
\* was idle for more than a window: the window holds the new entry alone.
C37_Witness ==
    \E r \in Requests :
        /\ pc[r] = "dedup"
        /\ limiter_fate[body[r].messageId] = "readmitted"
        /\ redis_ttl[RateKey(body[r].groupId)] >= 0
        /\ \E e \in redis_zsets[RateKey(body[r].groupId)] :
              /\ redis_zsets[RateKey(body[r].groupId)] = {e}
              /\ e.score > RATE_LIMIT_MAX_MESSAGES + RATE_LIMIT_WINDOW_SECONDS

RECURSIVE AdmittedIn(_, _, _)
\* The calls of group g admitted with a clock reading in lo..hi.
AdmittedIn(g, lo, hi) ==
    IF lo > hi THEN 0
    ELSE (IF lo >= 0 THEN rl_admitted[g][lo] ELSE 0) + AdmittedIn(g, lo + 1, hi)

\* C12 (as claimed): of the calls of one group, at most
\* RATE_LIMIT_MAX_MESSAGES are admitted with clock readings within any
\* trailing window of RATE_LIMIT_WINDOW_SECONDS, also when calls read the same
\* clock value.
C12_AtMostLimitPerWindow ==
    \A g \in Groups, t \in 0..MaxClock :
        AdmittedIn(g, t - RATE_LIMIT_WINDOW_SECONDS + 1, t) <= RATE_LIMIT_MAX_MESSAGES

(***************************************************************************)
(* Claims checked under SpecQueue                                          *)
(***************************************************************************)

\* C2 (as claimed): the side effects of a message's turn (a tool run, a
\* message sent to the group) happen in at most one attempt of its job, also
\* when the queue runs the job again.
C2_EffectsAtMostOnce == \A m \in MessageIds : effect_attempts[m] <= 1

(***************************************************************************)
(* Claims checked under SpecAgent                                          *)
(***************************************************************************)

\* C3: every execution of run_agent invokes confirm_processing exactly once,
\* as its last step: not before the turn and the compaction have ended
\* (normally, at END for an unknown site, or with an error of the reasoning
\* step, a tool, the reply or the compaction), and once when run_agent ends.
C3_ConfirmedExactlyOnce ==
    \A m \in MessageIds :
        /\ apc[m] \in InTry \cup {"confirm"} => acks[m] = 0
        /\ apc[m] = "done" => acks[m] = 1

\* A run whose compaction raised has ended, another whose site is unknown has
\* ended, each with its one acknowledgment.
C3_Witness ==
    /\ \E m \in MessageIds : apc[m] = "done" /\ err[m] = "compaction" /\ acks[m] = 1
    /\ \E m \in MessageIds :
           apc[m] = "done" /\ err[m] = "none" /\ ~st[m].site /\ acks[m] = 1

\* C4: in one turn the tools node is executed at most AGENT_MAX_ITERATIONS
\* times, and neither it nor another reasoning call is entered once
\* iteration_count has reached AGENT_MAX_ITERATIONS: the turn has moved to
\* post_process.
C4_ToolsWithinIterationCap ==
    \A m \in MessageIds :
        /\ tools_in_turn[m] <= AGENT_MAX_ITERATIONS
        /\ apc[m] \in {"tools", "agent"} => st[m].iteration_count < AGENT_MAX_ITERATIONS

\* Every reasoning response of the turn requested a tool call, and the turn
\* stands at post_process with the last request unanswered.
C4_Witness ==
    \E m \in MessageIds :
        /\ apc[m] = "post_process"
        /\ st[m].iteration_count = AGENT_MAX_ITERATIONS
        /\ st[m].messages[Len(st[m].messages)].tool_calls
        /\ tools_in_turn[m] = AGENT_MAX_ITERATIONS - 1
        /\ \A i \in 1..Len(st[m].messages) :
               st[m].messages[i].type = "ai" => st[m].messages[i].tool_calls

\* C5 (as claimed): a turn that starts right after a completed turn of its
\* session in which a tool ran finds the session's stored history empty.
C5_HistoryEmptyAfterToolTurn ==
    \A m \in MessageIds :
        (apc[m] = "preprocess" /\ prev_tool[m]) => st[m].messages = << >>

\* C17: whether confirm_processing returns or raises, run_agent ends with
\* what the turn ended with: the error the turn raised, or a normal return.
C17_AckFailureChangesNothing ==
    [][\A m \in MessageIds :
          (apc[m] = "confirm" /\ apc'[m] = "done") => err'[m] = err[m]]_vars

\* confirm_processing raised after a turn that raised in the reasoning step,
\* and after a turn that succeeded; run_agent raised the first error and
\* returned from the second.
C17_Witness ==
    /\ \E m \in MessageIds : apc[m] = "done" /\ ack_failed[m] /\ err[m] = "reasoning"
    /\ \E m \in MessageIds : apc[m] = "done" /\ ack_failed[m] /\ err[m] = "none"

C19_UnknownSiteGoesToEnd ==
    \A m \in MessageIds :
        GroupOf(m) \notin Sites =>
            /\ apc[m] \in {"idle", "preprocess", "compact", "confirm", "done"}
            /\ tools_in_turn[m] = 0
            /\ ~st[m].site
            /\ st[m].messages = << >>
            /\ checkpoint[session_id(GroupOf(m))].messages = << >>

\* The turn of a message of an unknown group has run and its job is complete,
\* while a turn of a known group is at the reasoning node.
C19_Witness ==
    /\ \E m \in MessageIds : GroupOf(m) \notin Sites /\ job_status[m] = "complete"
    /\ \E m \in MessageIds : GroupOf(m) \in Sites /\ apc[m] = "agent"

\* C20 (as claimed): of the turns of one thread (group_<groupId>) at most one
\* is inside graph.ainvoke or the compaction at any time.
C20_OneTurnPerSession ==
    \A m, o \in MessageIds :
        (m # o /\ GroupOf(m) = GroupOf(o)) => ~(apc[m] \in InTry /\ apc[o] \in InTry)

\* C27 (as claimed): whatever the speech-to-text call does, the turn leaves
\* the transcription node for build_input.
C27_TranscriptionNeverAborts ==
    [][\A m \in MessageIds :
          (apc[m] = "transcribe" /\ apc'[m] # "transcribe") => apc'[m] = "build_input"]_vars

\* C29: a turn starts from the stored state of its own group's thread, and a
\* step that changes the stored state of a thread is a step of a turn of that
\* thread's group: no step of a turn of another group changes its messages,
\* tool_was_called or iteration_count.
C29_SessionsAreIsolated ==
    [][\A m \in MessageIds :
          /\ (apc[m] = "idle" /\ apc'[m] = "preprocess") =>
                 st'[m] = InitialState(checkpoint["group_" \o GroupOf(m)])
          /\ apc'[m] # apc[m] =>
                 \A g \in Groups \ {GroupOf(m)} :
                     checkpoint'["group_" \o g] = checkpoint["group_" \o g]]_vars

\* A turn of group gA has stored a history with a tool result on its thread
\* and is still running, after a turn of group gB has run to its end.
C29_Witness ==
    /\ \E m \in MessageIds :
           /\ GroupOf(m) = "gA"
           /\ apc[m] \in InTry
           /\ tools_in_turn[m] > 0
           /\ Len(checkpoint["group_gA"].messages) >= 3
    /\ \E m \in MessageIds : GroupOf(m) = "gB" /\ job_status[m] = "complete"
    /\ checkpoint["group_gB"].messages = << >>

\* C30: no stored history and no turn's history holds a system message; the
\* input of a reasoning call is one SystemMessage followed by the turn's
\* history; and the reasoning step appends exactly its response to the history.
C30_NoSystemMessageInHistory ==
    /\ [](/\ \A t \in Threads :
                \A i \in 1..Len(checkpoint[t].messages) :
                    checkpoint[t].messages[i].type # "system"
          /\ \A m \in MessageIds :
                /\ \A i \in 1..Len(st[m].messages) : st[m].messages[i].type # "system"
                /\ apc[m] = "agent" =>
                       /\ Head(messages_for_llm(st[m])).type = "system"
                       /\ Tail(messages_for_llm(st[m])) = st[m].messages)
    /\ [][\A m \in MessageIds :
              (apc[m] = "agent" /\ apc'[m] \in {"tools", "post_process"}) =>
                  /\ Len(st'[m].messages) = Len(st[m].messages) + 1
                  /\ SubSeq(st'[m].messages, 1, Len(st[m].messages)) = st[m].messages
                  /\ st'[m].messages[Len(st'[m].messages)].type = "ai"]_vars

\* A turn is at its third reasoning call, its history of five messages stored
\* on its thread.
C30_Witness ==
    \E m \in MessageIds :
        /\ apc[m] = "agent"
        /\ st[m].iteration_count = 2
        /\ Len(checkpoint["group_" \o GroupOf(m)].messages) = 5
        /\ checkpoint["group_" \o GroupOf(m)].messages = st[m].messages

C32_ReplyIsAnAiMessage ==
    \A m \in MessageIds :
        \A i \in 1..Len(reply_sent[m]) : reply_sent[m][i].type = "ai"

\* C33 (refuted): at the end of a turn tool_was_called is true exactly when
\* the tools node was executed at least once during the turn.
C33_FlagIffToolsRan ==
    \A m \in MessageIds :
        (apc[m] = "compact" /\ st[m].site /\ err[m] = "none") =>
            (st[m].tool_was_called <=> tools_in_turn[m] > 0)

\* C39 (refuted): a turn that aborts with an error raised by its first
\* reasoning call, with no other turn of the session running, leaves the
\* stored history of the session as it was before the turn started: what the
\* turn holds without the user message that build_input appended.
C39_AbortedTurnLeavesHistory ==
    \A m \in MessageIds :
        (/\ apc[m] = "confirm"
         /\ err[m] = "reasoning"
         /\ st[m].iteration_count = 0
         /\ \A o \in MessageIds \ {m} : apc[o] = "idle") =>
            checkpoint[session_id(GroupOf(m))].messages =
                SubSeq(st[m].messages, 1, Len(st[m].messages) - 1)

\* C40 (refuted): no entry that requests tool calls is passed to the
\* reasoning step without the results of the calls after it; in particular
\* the history a completed turn keeps for the next turn of its session (which
\* the next turn's reasoning step is given) has no unanswered request, also
\* after an exit forced by the iteration cap.
C40_ToolCallsAreAnswered ==
    \A m \in MessageIds :
        (apc[m] = "confirm" /\ err[m] = "none") =>
            LET kept == checkpoint[session_id(GroupOf(m))].messages IN
            \A i \in 1..Len(kept) :
                kept[i].tool_calls =>
                    /\ i < Len(kept)
                    /\ kept[i + 1].type = "tool"

(***************************************************************************)
(* Claims checked under SpecCache                                          *)
(***************************************************************************)

\* C21: a get call whose read of the cache finds an entry (the client is
\* started, the key exists, the store does not raise) returns the site decoded
\* from that entry and never reads the database.
C21_HitReadsNoDatabase ==
    [][\A c \in Getters :
          ( /\ gpc[c] = "redis_get"
            /\ gpc'[c] # "redis_get"
            /\ site_cache_redis
            /\ site_redis[g_group[c]] # Nil
            /\ ~g_cache_error'[c] )
          => /\ gpc'[c] = "return"
             /\ g_result'[c] = loads(site_redis[g_group[c]])
             /\ ~g_read_db'[c]]_vars

\* A get call is about to return the cached site without having read the
\* database, no other call being in flight: an earlier call populated the entry.
C21_Witness ==
    \E c \in Getters :
        /\ gpc[c] = "return"
        /\ ~g_read_db[c]
        /\ g_result[c] # NoSite
        /\ \A o \in Getters \ {c} : gpc[o] = "idle"
        /\ \A w \in Writers : wpc[w] = "idle"

\* C22: a get call whose read of the cache finds no key reads the database;
\* a site found there is written to the cache with the lifetime
\* SITE_CACHE_TTL_SECONDS (positive) unless the store raises, and is returned;
\* when there is no site, get returns None and writes nothing. No entry of the
\* cache ever holds None, and every entry has a positive lifetime left.
C22_MissLoadsAndCachesSitesOnly ==
    /\ [](\A g \in Groups :
              site_redis[g] # Nil =>
                  (loads(site_redis[g]) # NoSite /\ site_redis_ttl[g] > 0))
    /\ [][\A c \in Getters :
              /\ (gpc[c] = "redis_get" /\ g_missed'[c]) => gpc'[c] = "load_db"
              /\ (gpc[c] = "load_db" /\ gpc'[c] # "load_db") =>
                     /\ g_read_db'[c]
                     /\ g_site'[c] = sites_table[g_group[c]]
                     /\ IF sites_table[g_group[c]] = NoSite
                        THEN /\ gpc'[c] = "return"
                             /\ g_result'[c] = NoSite
                             /\ site_redis' = site_redis
                        ELSE gpc'[c] = "redis_set"
              /\ (gpc[c] = "redis_set" /\ gpc'[c] # "redis_set") =>
                     /\ gpc'[c] = "return"
                     /\ g_result'[c] = g_site[c]
                     /\ (g_missed[c] /\ ~g_cache_error'[c]) =>
                            /\ site_redis'[g_group[c]] = dumps(g_site[c])
                            /\ site_redis_ttl'[g_group[c]] = SITE_CACHE_TTL_SECONDS
                            /\ SITE_CACHE_TTL_SECONDS > 0]_vars

\* One call missed, found the site and is about to return it, the entry
\* written; another missed, found no site and is about to return None, with
\* no entry for its group.
C22_Witness ==
    /\ \E c \in Getters :
           /\ gpc[c] = "return"
           /\ g_missed[c]
           /\ g_result[c] # NoSite
           /\ site_redis[g_group[c]] = dumps(g_result[c])
           /\ site_redis_ttl[g_group[c]] = SITE_CACHE_TTL_SECONDS
    /\ \E c \in Getters :
           /\ gpc[c] = "return"
           /\ g_missed[c]
           /\ g_read_db[c]
           /\ g_result[c] = NoSite
           /\ site_redis[g_group[c]] = Nil

\* C23 (as claimed): when invalidate(group_id) returns in a process whose
\* cache client is started, the cache holds no entry for the group.
C23_InvalidateRemovesEntry ==
    [][\A w \in Writers :
          (wpc[w] = "invalidate" /\ wpc'[w] = "returned" /\ site_cache_redis)
          => site_redis'[w_group[w]] = Nil]_vars

\* C24: no get call raises; a call in which the cache store raised (on the
\* read or on the write), or that runs without a cache client, has read the
\* database and returns what it read there: a version of the group's row the
\* table has held, None exactly when the group has no row.
C24_CacheFailureReadsThrough ==
    \A c \in Getters :
        /\ gpc[c] # "raised"
        /\ (gpc[c] = "return" /\ (g_cache_error[c] \/ ~site_cache_redis)) =>
               /\ g_read_db[c]
               /\ g_result[c] = g_site[c]
               /\ g_result[c] <= sites_table[g_group[c]]
               /\ (g_result[c] = NoSite) <=> (sites_table[g_group[c]] = NoSite)

\* The store raised in two calls: one is about to return the site of a group
\* whose key holds an entry (the store raised on the read), the other None.
C24_Witness ==
    /\ \E c \in Getters :
           /\ gpc[c] = "return"
           /\ g_cache_error[c]
           /\ ~g_missed[c]
           /\ g_result[c] # NoSite
           /\ site_redis[g_group[c]] # Nil
    /\ \E c \in Getters :
           /\ gpc[c] = "return"
           /\ g_cache_error[c]
           /\ g_result[c] = NoSite

\* C25: a write of a site (update_site, delete_site, update_logo) calls
\* site_cache.invalidate only after its commit, and when it returns to its
\* caller it has committed and invalidated if it found the site, and has done
\* neither if it found none.
C25_WriteInvalidatesBeforeReturn ==
    \A w \in Writers :
        /\ wpc[w] = "invalidate" => (w_found[w] /\ w_committed[w])
        /\ w_invalidated[w] => w_committed[w]
        /\ wpc[w] = "returned" =>
               IF w_found[w]
               THEN w_committed[w] /\ w_invalidated[w]
               ELSE ~w_committed[w] /\ ~w_invalidated[w]

\* update_logo has changed the site of a group, committed, invalidated and
\* is about to return, while a get call for the group is in flight.
C25_Witness ==
    \E w \in Writers :
        /\ wpc[w] = "returned"
        /\ w_kind[w] = "update_logo"
        /\ w_found[w]
        /\ w_committed[w]
        /\ w_invalidated[w]
        /\ \E c \in Getters : gpc[c] # "idle" /\ g_group[c] = w_group[w]

\* C26 (as claimed): a get call that starts after a write of the group's site
\* has committed and its invalidate has removed the group's entry returns
\* that write's version of the site, or a later one.
C26_GetAfterUpdateIsFresh ==
    \A c \in Getters :
        (gpc[c] = "return" /\ g_result[c] # NoSite) => g_result[c] >= g_floor[c]

(***************************************************************************)
(* Claims checked under SpecBridge                                         *)
(***************************************************************************)

\* C28: a call of send_message, send_messages, send_document or
\* schedule_message makes at most stop_after_attempt (3) attempts: an attempt
\* that succeeds ends the call, a failed one is followed by the next attempt
\* only while fewer than 3 have been made, and the call that raises does so
\* after its third attempt, with the error of that attempt.
C28_AtMostThreeAttempts ==
    /\ [](\A op \in BridgeOps :
              /\ attempt_number[op] <= stop_after_attempt
              /\ bpc[op] = "raised" =>
                     /\ attempt_number[op] = stop_after_attempt
                     /\ b_error[op] \in BridgeErrors
                     /\ b_raised[op] = b_error[op])
    /\ [][\A op \in BridgeOps :
              (bpc[op] = "attempt" /\ << bpc'[op], attempt_number'[op] >>
                                        # << bpc[op], attempt_number[op] >>) =>
                  /\ bpc'[op] = "returned" =>
                         (attempt_number'[op] = attempt_number[op] /\ b_error'[op] = b_error[op])
                  /\ bpc'[op] = "attempt" =>
                         /\ attempt_number[op] < stop_after_attempt
                         /\ attempt_number'[op] = attempt_number[op] + 1
                         /\ b_error'[op] \in BridgeErrors
                  /\ bpc'[op] \in {"returned", "attempt", "raised"}]_vars

\* send_message has raised the error of its third attempt, which differs from
\* the error of an earlier one, and send_document has returned at its second.
C28_Witness ==
    /\ bpc["send_message"] = "raised"
    /\ attempt_number["send_message"] = 3
    /\ b_raised["send_message"] = "ConnectError"
    /\ bpc["send_document"] = "returned"
    /\ attempt_number["send_document"] = 2
    /\ b_error["send_document"] = "HTTPStatusError"

(***************************************************************************)
(* Claims checked under SpecDefect                                         *)
(***************************************************************************)

\* C35: defect numbers are a per-site sequence. The committed rows of a site
\* are numbered 1, 2, 3, ... in the order of their commits (the first is 1,
\* each later one is the maximum plus 1), two calls for the same site never
\* hold the same defect_id, and no insert runs into the unique constraint.
C35_DefectIdsArePerSiteSequence ==
    /\ \A s \in SiteIds : \A i \in 1..Len(defects[s]) : defects[s][i] = i
    /\ \A c, o \in DefectCallers :
          (c # o /\ d_site[c] = d_site[o] /\ next_id[c] # 0 /\ next_id[o] # 0) =>
              next_id[c] # next_id[o]
    /\ \A c \in DefectCallers : d_result[c] # "IntegrityError"

\* Two calls for one site overlap: one has committed defect 1, the other
\* waited for the lock and has inserted defect 2; a call for the other site
\* has committed that site's defect 1 meanwhile.
C35_Witness ==
    \E c, o, e \in DefectCallers :
        /\ d_site[c] = d_site[o] /\ d_site[e] \notin {d_site[c], NoSite}
        /\ d_pc[c] = "notify" /\ next_id[c] = 1
        /\ d_pc[o] = "commit" /\ next_id[o] = 2 /\ d_waited[o]
        /\ d_pc[e] = "notify" /\ next_id[e] = 1

(***************************************************************************)
(* Claims checked under SpecReport                                         *)
(***************************************************************************)

\* C36 (refuted): when PDF generation fails or times out, send_pdf_report
\* does not raise and sends no document: it returns a failure text.
C36_PdfFailureIsReturned ==
    \A c \in ReportCallers :
        r_error[c] # "none" =>
            /\ r_result[c] = "failure text"
            /\ r_documents[c] = 0

(***************************************************************************)
(* Claims checked under SpecTurn                                           *)
(***************************************************************************)

\* C34: every turn terminates. The reasoning step is called at most
\* AGENT_MAX_ITERATIONS times in a turn and the tools node is not entered
\* after the last of them; the polling loop of transcribe makes at most
\* STT_TIMEOUT_SECONDS / POLL_INTERVAL status requests, and it has made that
\* many when it raises TimeoutError; a turn that has started leaves the graph
\* (it reaches END or an error leaves it) and its job ends, and a polling
\* loop that has started ends.
C34_EveryTurnTerminates ==
    /\ [](\A m \in TurnIds :
              /\ st[m].iteration_count <= AGENT_MAX_ITERATIONS
              /\ apc[m] = "tools" => st[m].iteration_count < AGENT_MAX_ITERATIONS)
    /\ [](stt_polls * SONIOX_POLL_INTERVAL <= STT_TIMEOUT_SECONDS)
    /\ [](stt_result = "TimeoutError" =>
              stt_polls * SONIOX_POLL_INTERVAL >= STT_TIMEOUT_SECONDS)
    /\ \A m \in TurnIds :
           (apc[m] = "preprocess") ~> (apc[m] \in {"compact", "confirm"})
    /\ \A m \in TurnIds :
           (job_status[m] = "running") ~> (job_status[m] \in {"complete", "failed"})
    /\ (stt_pc = "poll") ~> (stt_pc = "returned")

\* A turn whose transcription timed out after the last allowed status request
\* has reached END with its AGENT_MAX_ITERATIONS-th reasoning response.
C34_Witness ==
    \E m \in TurnIds :
        /\ apc[m] = "compact"
        /\ st[m].site
        /\ st[m].iteration_count = AGENT_MAX_ITERATIONS
        /\ st[m].tool_was_called
        /\ stt_result = "TimeoutError"
        /\ stt_polls * SONIOX_POLL_INTERVAL = STT_TIMEOUT_SECONDS

====
